---- MODULE Spec2Model ----
(***************************************************************************)
(* create-digitaltwin: the project generator (generateProject and the      *)
(* composers it calls) as a state machine over a target directory.         *)
(*                                                                         *)
(* The repository holds three revisions of generators/project.ts:          *)
(*   "project_ts"  src/src/generators/project.ts                           *)
(*   "part_002"    src/unnamed/part_002                                    *)
(*   "part_001"    src/unnamed/part_001  (version lookup, dt.js wrapper)   *)
(* The variable rev selects the revision a behaviour runs.                 *)
(*                                                                         *)
(* Spec runs the tool (createDigitalTwinApp: prompts, generateProject,     *)
(* output, exit status); SpecUnvalidated runs it on answers outside the    *)
(* enums; SpecLatest runs part_001 once with settled awaits; SpecDt runs   *)
(* the generated dt.js and SpecEntry the generated src/index.ts.           *)
(*                                                                         *)
(* Paths are sequences of segments relative to answers.projectPath.        *)
(* File contents are records: the parts of each template that vary or that *)
(* other artifacts must agree with, line by line where the layout matters. *)
(***************************************************************************)
EXTENDS Integers, Sequences, FiniteSets, TLC

VARIABLES
  rev,        \* revision of generators/project.ts being run
  answers,    \* the ProjectAnswers record passed to generateProject
  pc,         \* position inside generateProject
  dirs,       \* directories that exist under projectPath
  files,      \* path -> content on disk
  written,    \* paths written by the current run, in order
  lookup,     \* versions obtained by the current run: [core, cli]
  run,        \* number of the current generateProject call
  prev,       \* files on disk when the previous call completed
  prevLookup, \* lookup of the previous call
  err,        \* the step whose call rejected, "" when none
  ensured,    \* directories the current run's fs.ensureDir calls have made
  registry,   \* how the npm registry behaves towards this process
  console,    \* what the process has printed, in order
  exitCode,   \* the status the process ends with: 0 unless process.exit(n) ran
  app         \* a run of a generated program (dt.js, src/index.ts), Idle if none

\* The variables of the generator process.
generator ==
  <<rev, answers, pc, dirs, files, written, lookup, run, prev, prevLookup, err,
    ensured, registry, console, exitCode>>

vars == <<generator, app>>

\* ---------------------------------------------------------------- bounds

\* generateProject is called at most MaxRuns times on the same answers.
MaxRuns == 2

Revisions == {"project_ts", "part_002", "part_001"}

ProjectNames == {"demo", "my-app"}
Databases == {"sqlite", "postgresql"}
Storages == {"local", "ovh"}
\* "" stands for an absent (undefined) localStoragePath: both are falsy.
LocalStoragePaths == {"", "./files"}

\* The version the registry answers with when it answers with one.
RegistryVersions == {"0.4.0"}
\* A registry body that parses but has no version field: data.version is
\* undefined and the template literal prints it as "undefined".
Undefined == "undefined"

ProjectAnswers ==
  [projectName : ProjectNames, database : Databases, storage : Storages,
   localStoragePath : LocalStoragePaths, useRedis : BOOLEAN,
   includeDocker : BOOLEAN, includeExamples : BOOLEAN]

\* No generated program is running.
Idle == [prog |-> "none"]

\* ---------------------------------------------------------------- helpers

EmptyMap == [k \in {} |-> ""]

\* JavaScript a || b on strings.
Or(a, b) == IF a = "" THEN b ELSE a

Range(s) == {s[i] : i \in DOMAIN s}

\* path.dirname on a segment path.
Dirname(p) == SubSeq(p, 1, Len(p) - 1)

\* fs.ensureDir creates the directory and every missing parent.
Ancestors(d) == {SubSeq(d, 1, n) : n \in 0..Len(d)}

IsPrefix(d, p) == Len(d) <= Len(p) /\ SubSeq(p, 1, Len(d)) = d

\* ------------------------------------------------------- version lookup

CoreFallback == "0.3.3"
CliFallback == "0.1.0"

\* What awaiting fetch(url) and then response.json() can come to. fetch
\* rejects when the request cannot be made or the runtime gives up waiting;
\* otherwise it resolves with a response whatever its HTTP status, and the
\* body is JSON with a version field, JSON without one, or not JSON.
Responses ==
  [kind : {"response"}, ok : BOOLEAN,
   body : {"version", "no version field", "not json"}, version : RegistryVersions]
Rejections == [kind : {"network error", "timeout"}]
\* A registry that never answers leaves the timeout as the only outcome.
FetchOutcomes(reg) ==
  IF reg = "unresponsive" THEN [kind : {"timeout"}] ELSE Responses \cup Rejections

Returned(v) == [threw |-> FALSE, value |-> v, warning |-> ""]
Recovered(v, w) == [threw |-> FALSE, value |-> v, warning |-> w]
Thrown == [threw |-> TRUE, value |-> "", warning |-> ""]

CoreWarning ==
  "Warning: Could not fetch digitaltwin-core version from npm, falling back to default"
CliWarning ==
  "Warning: Could not fetch digitaltwin-cli version from npm, falling back to default"

\* Mutant: no try/catch around the request, a rejection propagates.
getLatestDigitalTwinCoreVersion_NoCatch(o) ==
  IF o.kind # "response" \/ o.body = "not json"
  THEN Thrown
  ELSE IF o.body = "no version field" THEN Returned(Undefined) ELSE Returned(o.version)

\* try { fetch; response.json(); return data.version } catch { warn; return
\* fallback }: response.ok is never read, and a body without a version field
\* returns undefined.
getLatestDigitalTwinCoreVersion(o) ==
  IF o.kind # "response" \/ o.body = "not json"
  THEN Recovered(CoreFallback, CoreWarning)
  ELSE IF o.body = "no version field" THEN Returned(Undefined) ELSE Returned(o.version)

getLatestDigitalTwinCliVersion(o) ==
  IF o.kind # "response" \/ o.body = "not json"
  THEN Recovered(CliFallback, CliWarning)
  ELSE IF o.body = "no version field" THEN Returned(Undefined) ELSE Returned(o.version)

\* Revisions before part_001 pin digitaltwin-core and look nothing up.
PinnedCore == "0.1.0"

NoLookup == [core |-> "", cli |-> ""]

\* ------------------------------------------------------- package.json

SqliteDriver(r) == IF r = "project_ts" THEN "sqlite3" ELSE "better-sqlite3"

SqliteDriverVersion(r) == IF r = "project_ts" THEN "^5.1.7" ELSE "^12.2.0"

\* Mutant: the dotenv dependency is left out of part_001's manifest.
BaseDependencies_NoDotenv(r, lk) ==
  IF r = "part_001"
  THEN ("digitaltwin-core" :> ("^" \o lk.core)) @@ ("knex" :> "^3.0.0")
       @@ ("commander" :> "^12.0.0")
  ELSE ("digitaltwin-core" :> ("^" \o PinnedCore)) @@ ("knex" :> "^3.0.0")
       @@ ("commander" :> "^12.0.0")

BaseDependencies(r, lk) ==
  IF r = "part_001"
  THEN ("digitaltwin-core" :> ("^" \o lk.core)) @@ ("knex" :> "^3.0.0")
       @@ ("commander" :> "^12.0.0") @@ ("dotenv" :> "^17.2.1")
  ELSE ("digitaltwin-core" :> ("^" \o PinnedCore)) @@ ("knex" :> "^3.0.0")
       @@ ("commander" :> "^12.0.0")

\* Mutant: the looked-up CLI version is also used for tsx.
BaseDevDependencies_CliVersionOnTsx(r, lk) ==
  IF r = "part_001"
  THEN ("@types/node" :> "^24.0.10") @@ ("typescript" :> "^5.0.0")
       @@ ("tsx" :> ("^" \o lk.cli)) @@ ("digitaltwin-cli" :> ("^" \o lk.cli))
  ELSE ("@types/node" :> "^24.0.10") @@ ("typescript" :> "^5.0.0")
       @@ ("ts-node-dev" :> "^2.0.0")

BaseDevDependencies(r, lk) ==
  IF r = "part_001"
  THEN ("@types/node" :> "^24.0.10") @@ ("typescript" :> "^5.0.0")
       @@ ("tsx" :> "^4.19.2") @@ ("digitaltwin-cli" :> ("^" \o lk.cli))
  ELSE ("@types/node" :> "^24.0.10") @@ ("typescript" :> "^5.0.0")
       @@ ("ts-node-dev" :> "^2.0.0")

\* Mutant: the else is lost and the embedded driver is always added.
DatabaseDependencies_Both(r, a) ==
  (IF a.database = "postgresql" THEN "pg" :> "^8.11.0" ELSE EmptyMap)
    @@ (SqliteDriver(r) :> SqliteDriverVersion(r))

DatabaseDependencies(r, a) ==
  IF a.database = "postgresql"
  THEN "pg" :> "^8.11.0"
  ELSE SqliteDriver(r) :> SqliteDriverVersion(r)

DatabaseDevDependencies(a) ==
  IF a.database = "postgresql" THEN "@types/pg" :> "^8.10.0" ELSE EmptyMap

RedisDependencies(a) ==
  IF a.useRedis THEN "ioredis" :> "^5.6.1" ELSE EmptyMap

\* Mutant: the S3 client is also added when the queue is enabled.
StorageDependencies_WithRedis(a) ==
  IF a.storage = "ovh" \/ a.useRedis THEN "@aws-sdk/client-s3" :> "^3.842.0" ELSE EmptyMap

StorageDependencies(a) ==
  IF a.storage = "ovh" THEN "@aws-sdk/client-s3" :> "^3.842.0" ELSE EmptyMap

Dependencies(r, a, lk) ==
  StorageDependencies(a) @@ RedisDependencies(a) @@ DatabaseDependencies(r, a)
    @@ BaseDependencies(r, lk)

DevDependencies(r, a, lk) ==
  DatabaseDevDependencies(a) @@ BaseDevDependencies(r, lk)

Scripts(r) ==
  IF r = "part_001"
  THEN ("build" :> "tsc") @@ ("dev" :> "tsx watch src/index.ts")
       @@ ("start" :> "node dist/index.js")
  ELSE ("build" :> "tsc") @@ ("dev" :> "ts-node-dev src/index.ts")
       @@ ("start" :> "node dist/index.js")
       @@ ("dt:test" :> "ts-node --esm src/dt-cli.ts test")
       @@ ("dt:dev" :> "ts-node --esm src/dt-cli.ts dev")

Bin(r) == IF r = "part_001" THEN EmptyMap ELSE ("dt" :> "./dist/dt-cli.js")

PackageJson(r, a, lk) ==
  [kind |-> "package.json",
   name |-> a.projectName,
   version |-> "1.0.0",
   main |-> "dist/index.js",
   type |-> "module",
   scripts |-> Scripts(r),
   bin |-> Bin(r),
   dependencies |-> Dependencies(r, a, lk),
   devDependencies |-> DevDependencies(r, a, lk)]

\* ------------------------------------------------------- src/index.ts

\* An import statement: the bound names and the module specifier, split at "/".
Import(names, from) == [names |-> names, from |-> from]

\* One entry of the Env.validate schema.
Var(name, type, optional, format) ==
  [name |-> name, type |-> type, optional |-> optional, format |-> format]

storageClass(a) ==
  IF a.storage = "local" THEN "LocalStorageService" ELSE "OvhS3StorageService"

ExampleClasses(r) ==
  CASE r = "project_ts" -> <<"RandomDataCollector", "DataProcessor">>
    [] r = "part_002" -> <<"JSONPlaceholderCollector", "DataProcessor">>
    [] OTHER -> <<"JSONPlaceholderCollector">>

dotenvImport(r) ==
  IF r = "part_001" THEN <<Import(<<>>, <<"dotenv", "config">>)>> ELSE <<>>

exampleImports(r, a) ==
  IF a.includeExamples
  THEN <<Import(ExampleClasses(r), <<".", "components", "index.js">>)>>
  ELSE <<>>

IndexImports(r, a) ==
  dotenvImport(r)
    \o <<Import(<<"DigitalTwinEngine", "KnexDatabaseAdapter", "Env">>, <<"digitaltwin-core">>),
         Import(<<storageClass(a)>>, <<"digitaltwin-core">>)>>
    \o exampleImports(r, a)

dbConfigSection(a) ==
  IF a.database = "postgresql"
  THEN <<Var("DB_HOST", "string", FALSE, ""),
         Var("DB_PORT", "number", TRUE, ""),
         Var("DB_USER", "string", FALSE, ""),
         Var("DB_PASSWORD", "string", FALSE, ""),
         Var("DB_NAME", "string", FALSE, "")>>
  ELSE <<Var("DB_PATH", "string", TRUE, "")>>

\* Mutant: the object-storage region is declared as a required variable.
storageConfigSection_RegionRequired(a) ==
  IF a.storage = "local"
  THEN <<Var("STORAGE_PATH", "string", TRUE, "")>>
  ELSE <<Var("OVH_ACCESS_KEY", "string", FALSE, ""),
         Var("OVH_SECRET_KEY", "string", FALSE, ""),
         Var("OVH_ENDPOINT", "string", FALSE, "url"),
         Var("OVH_REGION", "string", FALSE, ""),
         Var("OVH_BUCKET", "string", FALSE, "")>>

storageConfigSection(a) ==
  IF a.storage = "local"
  THEN <<Var("STORAGE_PATH", "string", TRUE, "")>>
  ELSE <<Var("OVH_ACCESS_KEY", "string", FALSE, ""),
         Var("OVH_SECRET_KEY", "string", FALSE, ""),
         Var("OVH_ENDPOINT", "string", FALSE, "url"),
         Var("OVH_REGION", "string", TRUE, ""),
         Var("OVH_BUCKET", "string", FALSE, "")>>

redisConfigSection(a) ==
  IF a.useRedis
  THEN <<Var("REDIS_HOST", "string", TRUE, ""),
         Var("REDIS_PORT", "number", TRUE, "")>>
  ELSE <<>>

EnvSchema(a) ==
  <<Var("PORT", "number", TRUE, "")>>
    \o dbConfigSection(a) \o storageConfigSection(a) \o redisConfigSection(a)

\* env.X || fallback, and a bare env.X (fallback "").
EnvOr(name, fallback) == [env |-> name, fallback |-> fallback]

storageInit(a) ==
  IF a.storage = "local"
  THEN [shape |-> "path",
        fields |-> ("path" :> EnvOr("STORAGE_PATH", Or(a.localStoragePath, "./uploads")))]
  ELSE [shape |-> "object",
        fields |-> ("accessKey" :> EnvOr("OVH_ACCESS_KEY", ""))
                   @@ ("secretKey" :> EnvOr("OVH_SECRET_KEY", ""))
                   @@ ("endpoint" :> EnvOr("OVH_ENDPOINT", ""))
                   @@ ("region" :> EnvOr("OVH_REGION", "gra"))
                   @@ ("bucket" :> EnvOr("OVH_BUCKET", ""))]

SqliteClient(r) == IF r = "project_ts" THEN "sqlite3" ELSE "better-sqlite3"

dbConfig(r, a) ==
  IF a.database = "postgresql"
  THEN [client |-> "pg",
        connection |-> ("host" :> EnvOr("DB_HOST", ""))
                       @@ ("port" :> EnvOr("DB_PORT", "5432"))
                       @@ ("user" :> EnvOr("DB_USER", ""))
                       @@ ("password" :> EnvOr("DB_PASSWORD", ""))
                       @@ ("database" :> EnvOr("DB_NAME", "")),
        useNullAsDefault |-> FALSE]
  ELSE [client |-> SqliteClient(r),
        connection |-> ("filename"
                          :> EnvOr("DB_PATH", "./data/" \o a.projectName \o ".db")),
        useNullAsDefault |-> TRUE]

\* The keys of the object handed to new DigitalTwinEngine and, for the
\* component lists, the classes instantiated.
exampleComponents(r, a) ==
  IF ~a.includeExamples THEN EmptyMap
  ELSE IF r = "part_001"
       THEN "collectors" :> <<"JSONPlaceholderCollector">>
       ELSE ("collectors" :> <<ExampleClasses(r)[1]>>)
            @@ ("handlers" :> <<"DataProcessor">>)

EngineRedis(r) ==
  IF r = "project_ts" THEN EmptyMap ELSE "redis" :> <<"localhost", "6379">>

EngineOptions(r, a) ==
  ("database" :> <<"database">>) @@ ("storage" :> <<"storage">>)
    @@ EngineRedis(r) @@ exampleComponents(r, a)

\* Mutant: the object-storage display string carries the local path too.
storageDisplay_PathForAll(a) ==
  IF a.storage = "local"
  THEN "Local filesystem (${env.STORAGE_PATH || '"
         \o Or(a.localStoragePath, "./uploads") \o "'})"
  ELSE "OVH Object Storage (" \o Or(a.localStoragePath, "./uploads") \o ")"

storageDisplay(a) ==
  IF a.storage = "local"
  THEN "Local filesystem (${env.STORAGE_PATH || '"
         \o Or(a.localStoragePath, "./uploads") \o "'})"
  ELSE "OVH Object Storage"

queueDisplay(a) == IF a.useRedis THEN "Redis enabled" ELSE "In-memory mode"

dbDisplay(a) == IF a.database = "postgresql" THEN "PostgreSQL" ELSE "SQLite"

\* Mutant: the display strings are logged before the engine is started.
MainSteps_LogsBeforeStart ==
  <<"Env.validate", "new storage", "dbConfig", "new KnexDatabaseAdapter",
    "new DigitalTwinEngine", "log database", "log storage", "log queue",
    "await engine.start", "log port", "process.on SIGINT">>

\* Mutant: the interrupt handler is registered before the engine is started.
MainSteps_HandlerBeforeStart ==
  <<"Env.validate", "new storage", "dbConfig", "new KnexDatabaseAdapter",
    "new DigitalTwinEngine", "process.on SIGINT", "await engine.start", "log port",
    "log database", "log storage", "log queue">>

\* The statements of main(), in source order.
MainSteps ==
  <<"Env.validate", "new storage", "dbConfig", "new KnexDatabaseAdapter",
    "new DigitalTwinEngine", "await engine.start", "log port",
    "log database", "log storage", "log queue", "process.on SIGINT">>

generateIndexFile(r, a) ==
  [kind |-> "index.ts",
   projectName |-> a.projectName,
   imports |-> IndexImports(r, a),
   schema |-> EnvSchema(a),
   storageClass |-> storageClass(a),
   storageInit |-> storageInit(a),
   dbConfig |-> dbConfig(r, a),
   engine |-> EngineOptions(r, a),
   display |-> [database |-> dbDisplay(a), storage |-> storageDisplay(a),
                queue |-> queueDisplay(a)],
   main |-> MainSteps]

\* ------------------------------------------------------- src/dt-cli.ts

\* process.env.X || fallback in the CLI of the older revisions.
CliStorageInit(a) ==
  IF a.storage = "local"
  THEN [shape |-> "path",
        fields |-> ("path" :> EnvOr("STORAGE_PATH", Or(a.localStoragePath, "./uploads")))]
  ELSE [shape |-> "object",
        fields |-> ("accessKey" :> EnvOr("OVH_ACCESS_KEY", ""))
                   @@ ("secretKey" :> EnvOr("OVH_SECRET_KEY", ""))
                   @@ ("endpoint" :> EnvOr("OVH_ENDPOINT", ""))
                   @@ ("region" :> EnvOr("OVH_REGION", "gra"))
                   @@ ("bucket" :> EnvOr("OVH_BUCKET", a.projectName \o "-storage"))]

CliDbConfig(r, a) ==
  IF a.database = "postgresql"
  THEN [client |-> "pg",
        connection |-> ("host" :> EnvOr("DB_HOST", "localhost"))
                       @@ ("port" :> EnvOr("DB_PORT", "5432"))
                       @@ ("user" :> EnvOr("DB_USER", "postgres"))
                       @@ ("password" :> EnvOr("DB_PASSWORD", "password"))
                       @@ ("database" :> EnvOr("DB_NAME", a.projectName)),
        useNullAsDefault |-> FALSE]
  ELSE [client |-> SqliteClient(r),
        connection |-> ("filename"
                          :> EnvOr("DB_PATH", "./data/" \o a.projectName \o ".db")),
        useNullAsDefault |-> TRUE]

generateCliFile(r, a) ==
  [kind |-> "dt-cli.ts",
   imports |-> <<Import(<<"DigitalTwinEngine", "KnexDatabaseAdapter">>, <<"digitaltwin-core">>),
                 Import(<<storageClass(a)>>, <<"digitaltwin-core">>),
                 Import(<<"program">>, <<"commander">>),
                 Import(<<"fileURLToPath">>, <<"url">>),
                 Import(<<"path">>, <<"path">>),
                 Import(<<"fs">>, <<"fs">>)>>,
   storageClass |-> storageClass(a),
   storageInit |-> CliStorageInit(a),
   dbConfig |-> CliDbConfig(r, a),
   commands |-> <<"test", "dev">>]

\* ------------------------------------------------------- tsconfig.json

generateTsConfig(r) ==
  [kind |-> "tsconfig.json",
   outDir |-> "./dist",
   rootDir |-> "./src",
   include |-> <<"src/**/*">>,
   exclude |-> <<"node_modules", "dist">>,
   experimentalDecorators |-> (r = "part_001")]

\* ------------------------------------------------------- .env

\* Lines of a KEY=value file.
KV(k, v) == [t |-> "kv", k |-> k, v |-> v]
Comment(text) == [t |-> "#", k |-> text, v |-> ""]
Blank == [t |-> "", k |-> "", v |-> ""]

EnvDatabaseLines(a) ==
  IF a.database = "postgresql"
  THEN <<Comment("PostgreSQL Database (Required for production)"),
         KV("DB_HOST", "localhost"),
         KV("DB_PORT", "5432"),
         KV("DB_USER", "postgres"),
         KV("DB_PASSWORD", "password"),
         KV("DB_NAME", a.projectName)>>
  ELSE <<Comment("SQLite Database (Good for development)"),
         KV("DB_PATH", "./data/" \o a.projectName \o ".db")>>

\* Mutant: the template's STORAGE_PATH ignores localStoragePath.
EnvStorageLines_FixedUploads(a) ==
  IF a.storage = "local"
  THEN <<Comment("Local File Storage"),
         KV("STORAGE_PATH", "./uploads")>>
  ELSE <<Comment("OVH Object Storage (S3-compatible)"),
         KV("OVH_ACCESS_KEY", "your_ovh_access_key_here"),
         KV("OVH_SECRET_KEY", "your_ovh_secret_key_here"),
         KV("OVH_ENDPOINT", "https://s3.gra.io.cloud.ovh.net"),
         KV("OVH_REGION", "gra"),
         KV("OVH_BUCKET", a.projectName \o "-storage")>>

EnvStorageLines(a) ==
  IF a.storage = "local"
  THEN <<Comment("Local File Storage"),
         KV("STORAGE_PATH", Or(a.localStoragePath, "./uploads"))>>
  ELSE <<Comment("OVH Object Storage (S3-compatible)"),
         KV("OVH_ACCESS_KEY", "your_ovh_access_key_here"),
         KV("OVH_SECRET_KEY", "your_ovh_secret_key_here"),
         KV("OVH_ENDPOINT", "https://s3.gra.io.cloud.ovh.net"),
         KV("OVH_REGION", "gra"),
         KV("OVH_BUCKET", a.projectName \o "-storage")>>

\* Mutant: the template's Redis block lacks REDIS_PORT.
EnvRedisLines_NoPort(a) ==
  IF a.useRedis
  THEN <<Blank,
         Comment("Redis Configuration (Queue Management)"),
         KV("REDIS_HOST", "localhost")>>
  ELSE <<>>

EnvRedisLines(a) ==
  IF a.useRedis
  THEN <<Blank,
         Comment("Redis Configuration (Queue Management)"),
         KV("REDIS_HOST", "localhost"),
         KV("REDIS_PORT", "6379")>>
  ELSE <<>>

generateEnvFile(a) ==
  [kind |-> ".env",
   lines |->
     <<Comment(a.projectName \o " Digital Twin Configuration"),
       Comment("This file contains environment variables for your Digital Twin application"),
       Comment("Copy this to .env and update the values as needed"),
       Blank,
       Comment("Application Configuration"),
       KV("PORT", "3000"),
       Blank,
       Comment("Database Configuration")>>
     \o EnvDatabaseLines(a)
     \o <<Blank, Comment("Storage Configuration")>>
     \o EnvStorageLines(a)
     \o EnvRedisLines(a)
     \o <<Blank,
          Comment("Development Configuration"),
          KV("NODE_ENV", "development"),
          Blank,
          Comment("Logging"),
          KV("LOG_LEVEL", "info")>>]

\* The KEY names of a KEY=value file, as dotenv reads them.
EnvKeys(content) ==
  {content.lines[i].k : i \in {j \in DOMAIN content.lines : content.lines[j].t = "kv"}}

EnvValue(content, key) ==
  LET hits == {j \in DOMAIN content.lines :
                 content.lines[j].t = "kv" /\ content.lines[j].k = key}
  IN content.lines[CHOOSE j \in hits : \A h \in hits : h <= j].v

\* ------------------------------------------------------- .gitignore

gitignoreContent ==
  [kind |-> ".gitignore",
   lines |-> <<"node_modules/", "dist/", ".env", "*.log", "uploads/", "data/", ".DS_Store">>]

\* ------------------------------------------------------- src/components

componentsDir == <<"src", "components">>

\* The collector source each revision emits: its file, class and imports.
collectorFile(r) ==
  IF r = "project_ts" THEN "random-data-collector.ts" ELSE "jsonplaceholder_collector.ts"

\* The statements of the example collector's collect() inside its try block,
\* in source order.  The first revision's collector draws random sensor
\* readings and performs no request.
CollectSteps(r) ==
  IF r = "project_ts"
  THEN <<"return dataPoints">>
  ELSE <<"fetch posts", "fetch users", "await Promise.all",
         "check posts.ok", "check users.ok",
         "await posts.json", "await users.json", "return data">>

collectorContent(r) ==
  [kind |-> "collector",
   imports |-> <<Import(<<"Collector">>, <<"digitaltwin-core">>)>>,
   exports |-> <<IF r = "project_ts" THEN "RandomDataCollector"
                 ELSE "JSONPlaceholderCollector">>,
   collect |-> CollectSteps(r)]

handlerContent ==
  [kind |-> "handler",
   imports |-> <<Import(<<"Handler">>, <<"digitaltwin-core">>)>>,
   exports |-> <<"DataProcessor">>]

\* export { X } from './file.js' lines of src/components/index.ts.
ReExport(name, from) == [name |-> name, from |-> from]

componentsIndexContent(r) ==
  [kind |-> "components/index.ts",
   reexports |->
     IF r = "project_ts"
     THEN <<ReExport("RandomDataCollector", <<".", "random-data-collector.js">>),
            ReExport("DataProcessor", <<".", "data-processor.js">>)>>
     ELSE <<ReExport("JSONPlaceholderCollector", <<".", "jsonplaceholder_collector.js">>)>>]

\* ------------------------------------------------------- Docker

dockerfileContent ==
  [kind |-> "Dockerfile",
   lines |-> <<"FROM node:18-alpine", "WORKDIR /app", "COPY package*.json ./",
               "RUN npm ci --only=production", "COPY dist/ ./dist/", "COPY .env ./",
               "EXPOSE 3000", "CMD [\"npm\", \"start\"]">>]

\* Lines of a YAML file: a key at an indent (with an inline value or none),
\* or a list item at an indent.
YKey(ind, k, v) == [t |-> "key", ind |-> ind, k |-> k, v |-> v]
YItem(ind, v) == [t |-> "item", ind |-> ind, k |-> "", v |-> v]
YBlank == [t |-> "", ind |-> 0, k |-> "", v |-> ""]

ComposeDependsOn(a) ==
  <<YKey(4, "depends_on", "")>>
    \o (IF a.database = "postgresql" THEN <<YItem(6, "postgres")>> ELSE <<>>)
    \o (IF a.useRedis THEN <<YItem(6, "redis")>> ELSE <<>>)

ComposeApp(a) ==
  <<YKey(0, "version", "'3.8'"),
    YBlank,
    YKey(0, "services", ""),
    YKey(2, "app", ""),
    YKey(4, "build", "."),
    YKey(4, "ports", ""),
    YItem(6, "3000:3000"),
    YKey(4, "environment", ""),
    YItem(6, "NODE_ENV=production")>>
  \o ComposeDependsOn(a)
  \o <<YKey(4, "volumes", ""),
       YItem(6, "./data:/app/data"),
       YItem(6, "./uploads:/app/uploads")>>

\* Mutant: the postgres service creates a database of a fixed name.
ComposePostgres_FixedName(a) ==
  IF a.database = "postgresql"
  THEN <<YBlank,
         YKey(2, "postgres", ""),
         YKey(4, "image", "postgres:15-alpine"),
         YKey(4, "environment", ""),
         YKey(6, "POSTGRES_DB", "digitaltwin"),
         YKey(6, "POSTGRES_USER", "postgres"),
         YKey(6, "POSTGRES_PASSWORD", "password"),
         YKey(4, "ports", ""),
         YItem(6, "5432:5432"),
         YKey(4, "volumes", ""),
         YItem(6, "postgres_data:/var/lib/postgresql/data")>>
  ELSE <<>>

ComposePostgres(a) ==
  IF a.database = "postgresql"
  THEN <<YBlank,
         YKey(2, "postgres", ""),
         YKey(4, "image", "postgres:15-alpine"),
         YKey(4, "environment", ""),
         YKey(6, "POSTGRES_DB", a.projectName),
         YKey(6, "POSTGRES_USER", "postgres"),
         YKey(6, "POSTGRES_PASSWORD", "password"),
         YKey(4, "ports", ""),
         YItem(6, "5432:5432"),
         YKey(4, "volumes", ""),
         YItem(6, "postgres_data:/var/lib/postgresql/data")>>
  ELSE <<>>

ComposeRedis(a) ==
  IF a.useRedis
  THEN <<YBlank,
         YKey(2, "redis", ""),
         YKey(4, "image", "redis:7-alpine"),
         YKey(4, "ports", ""),
         YItem(6, "6379:6379")>>
  ELSE <<>>

\* Mutant: the top-level volumes block is emitted for every database.
ComposeVolumes_Always(a) ==
  <<YBlank, YKey(0, "volumes", ""), YKey(2, "postgres_data", "")>>

ComposeVolumes(a) ==
  IF a.database = "postgresql"
  THEN <<YBlank, YKey(0, "volumes", ""), YKey(2, "postgres_data", "")>>
  ELSE <<>>

dockerComposeContent(a) ==
  [kind |-> "docker-compose.yml",
   lines |-> ComposeApp(a) \o ComposePostgres(a) \o ComposeRedis(a) \o ComposeVolumes(a)]

\* Reading the YAML back: line j lies below the key on line i when every
\* non-blank line from i+1 to j is indented deeper than line i.
Below(lines, i) ==
  {j \in DOMAIN lines :
     /\ j > i
     /\ lines[j].t # ""
     /\ \A m \in (i + 1)..j : lines[m].t = "" \/ lines[m].ind > lines[i].ind}

KeyLines(lines, scope, ind, k) ==
  {i \in scope : lines[i].t = "key" /\ lines[i].ind = ind /\ lines[i].k = k}

\* The keys one level (two spaces) below the key(s) on lines `parents`.
SubKeys(lines, parents) ==
  {lines[j].k : j \in {m \in DOMAIN lines :
     \E i \in parents : m \in Below(lines, i) /\ lines[m].t = "key"
                        /\ lines[m].ind = lines[i].ind + 2}}

\* The list items directly below the key(s) on lines `parents`.
SubItems(lines, parents) ==
  {lines[j].v : j \in {m \in DOMAIN lines :
     \E i \in parents : m \in Below(lines, i) /\ lines[m].t = "item"
                        /\ lines[m].ind = lines[i].ind + 2}}

ComposeServices(content) ==
  SubKeys(content.lines, KeyLines(content.lines, DOMAIN content.lines, 0, "services"))

ServiceLines(content, svc) ==
  LET top == KeyLines(content.lines, DOMAIN content.lines, 0, "services")
  IN KeyLines(content.lines, UNION {Below(content.lines, i) : i \in top}, 2, svc)

\* The keys declared inside a service.
ServiceKeys(content, svc) == SubKeys(content.lines, ServiceLines(content, svc))

DependsOnLines(content, svc) ==
  KeyLines(content.lines,
           UNION {Below(content.lines, i) : i \in ServiceLines(content, svc)},
           4, "depends_on")

\* The entries of a service's depends_on list.
DependsOn(content, svc) == SubItems(content.lines, DependsOnLines(content, svc))

\* The top-level named volumes.
NamedVolumes(content) ==
  SubKeys(content.lines, KeyLines(content.lines, DOMAIN content.lines, 0, "volumes"))

\* A service's environment, as KEY -> value for the mapping form.
ServiceEnvironment(content, svc) ==
  LET envs == KeyLines(content.lines,
                       UNION {Below(content.lines, i) : i \in ServiceLines(content, svc)},
                       4, "environment")
      ls == {m \in DOMAIN content.lines :
               \E i \in envs : m \in Below(content.lines, i)
                               /\ content.lines[m].t = "key"}
  IN [k \in {content.lines[m].k : m \in ls} |->
        content.lines[CHOOSE m \in ls : content.lines[m].k = k].v]

\* ------------------------------------------------------- README.md

\* A numbered step of the Getting Started list: the number as printed.
Step(num, title) == [num |-> num, title |-> title]

ReadmePostgresStep(a) ==
  IF a.database = "postgresql"
  THEN <<Step("3", "Set up PostgreSQL:")>>
  ELSE <<>>

\* Mutant: the Redis step is always numbered 4.
ReadmeRedisStep_Fixed4(a) ==
  IF a.useRedis THEN <<Step("4", "Set up Redis:")>> ELSE <<>>

ReadmeRedisStep(a) ==
  IF a.useRedis
  THEN <<Step(IF a.database = "postgresql" THEN "4" ELSE "3", "Set up Redis:")>>
  ELSE <<>>

\* Mutant: the final step is numbered 4 whenever any optional step exists.
ReadmeStartStep_NoFive(a) ==
  IF a.database = "postgresql" \/ a.useRedis
  THEN <<Step("4", "Start development server:")>>
  ELSE <<Step("3", "Start development server:")>>

ReadmeStartStep(a) ==
  IF a.database = "postgresql" \/ a.useRedis
  THEN <<Step(IF a.database = "postgresql" /\ a.useRedis THEN "5" ELSE "4",
              "Start development server:")>>
  ELSE <<Step("3", "Start development server:")>>

GettingStarted(a) ==
  <<Step("1", "Install dependencies:"), Step("2", "Configure environment:")>>
    \o ReadmePostgresStep(a) \o ReadmeRedisStep(a) \o ReadmeStartStep(a)

readmeContent(a) ==
  [kind |-> "README.md",
   title |-> a.projectName,
   features |->
     [database |-> IF a.database = "postgresql"
                   THEN "PostgreSQL with production-ready configuration"
                   ELSE "SQLite for easy development",
      storage |-> IF a.storage = "local"
                  THEN "Local file system storage ("
                         \o Or(a.localStoragePath, "./uploads") \o ")"
                  ELSE "OVH Object Storage integration",
      queue |-> IF a.useRedis THEN "Redis-powered background jobs"
                ELSE "In-memory job processing",
      examples |-> a.includeExamples],
   configuration |->
     [database |-> IF a.database = "postgresql" THEN "PostgreSQL" ELSE "SQLite",
      storage |-> IF a.storage = "local"
                  THEN "Local File System (" \o Or(a.localStoragePath, "./uploads") \o ")"
                  ELSE "OVH Object Storage",
      queue |-> IF a.useRedis THEN "Redis (BullMQ)" ELSE "In-memory",
      docker |-> IF a.includeDocker THEN "Included" ELSE "Not included"],
   createdb |-> IF a.database = "postgresql" THEN a.projectName ELSE "",
   steps |-> GettingStarted(a)]

\* The decimal value of a printed step number.
StepValue(num) ==
  CASE num = "1" -> 1 [] num = "2" -> 2 [] num = "3" -> 3
    [] num = "4" -> 4 [] num = "5" -> 5 [] OTHER -> 0

StepNumbers(content) == [i \in DOMAIN content.steps |-> StepValue(content.steps[i].num)]

\* ------------------------------------------------------- dt.js

dtCliContent ==
  [kind |-> "dt.js",
   imports |-> <<Import(<<"spawn">>, <<"child_process">>)>>,
   command |-> "npx",
   argv |-> <<"digitaltwin-cli", "...args">>,
   exit |-> "code || 0"]

\* ------------------------------------------------------- file system

\* await fs.ensureDir(d): the directory and its parents exist afterwards, or
\* the call rejects and generateProject rejects with it.
EnsureDir(step, d, next) ==
  \/ /\ dirs' = dirs \cup Ancestors(d)
     /\ ensured' = ensured \cup Ancestors(d)
     /\ pc' = next
     /\ UNCHANGED <<files, written, err, console>>
  \/ /\ pc' = "failed"
     /\ err' = step
     /\ UNCHANGED <<dirs, ensured, files, written, console>>

\* Mutant: a failed write removes what the run has written so far.
WriteFile_Cleanup(step, p, content, next) ==
  \/ /\ Dirname(p) \in dirs
     /\ files' = (p :> content) @@ files
     /\ written' = Append(written, p)
     /\ pc' = next
     /\ UNCHANGED <<dirs, ensured, err, console>>
  \/ /\ pc' = "failed"
     /\ err' = step
     /\ files' = [q \in DOMAIN files \ Range(written) |-> files[q]]
     /\ UNCHANGED <<dirs, ensured, written, console>>

\* await fs.writeFile(p, content) / fs.writeJson: the file holds the content
\* afterwards (an existing file is replaced), or the call rejects; it rejects
\* when the containing directory does not exist.
WriteFile(step, p, content, next) ==
  \/ /\ Dirname(p) \in dirs
     /\ files' = (p :> content) @@ files
     /\ written' = Append(written, p)
     /\ pc' = next
     /\ UNCHANGED <<dirs, ensured, err, console>>
  \/ /\ pc' = "failed"
     /\ err' = step
     /\ UNCHANGED <<dirs, ensured, files, written, console>>

Fixed == UNCHANGED <<rev, answers, registry, run, prev, prevLookup, exitCode, app>>

\* console.log, console.warn and console.error calls.
Log(text) == [stream |-> "log", text |-> text]
Warn(text) == [stream |-> "warn", text |-> text]
Error(text, message) == [stream |-> "error", text |-> text, message |-> message]

Banner ==
  <<Log("Create Digital Twin App"),
    Log("Generate a new Digital Twin project with digitaltwin-core")>>

\* ------------------------------------------------------- generateProject

Init ==
  /\ rev \in Revisions
  /\ answers \in ProjectAnswers
  /\ pc = "getProjectPrompts"
  /\ dirs = {}
  /\ files = EmptyMap
  /\ written = <<>>
  /\ lookup = NoLookup
  /\ run = 1
  /\ prev = EmptyMap
  /\ prevLookup = NoLookup
  /\ err = ""
  /\ ensured = {}
  /\ registry = "any"
  /\ console = Banner
  /\ exitCode = 0
  /\ app = Idle

\* createDigitalTwinApp, the program action: await getProjectPrompts(). The
\* prompts resolve with the answers or reject (a cancelled prompt, a refused
\* target directory).
getProjectPrompts ==
  /\ pc = "getProjectPrompts"
  /\ \/ /\ pc' = "ensureProjectDir"
        /\ UNCHANGED err
     \/ /\ pc' = "failed"
        /\ err' = "getProjectPrompts"
  /\ UNCHANGED <<dirs, ensured, files, written, lookup, console>>
  /\ Fixed

ensureProjectDir ==
  /\ pc = "ensureProjectDir"
  /\ EnsureDir("ensureProjectDir", <<>>,
               IF rev = "part_001" THEN "getCoreVersion" ELSE "writePackageJson")
  /\ UNCHANGED lookup
  /\ Fixed

\* generatePackageJson, first await (part_001).
\* await of a version lookup inside generatePackageJson: the returned value
\* is kept, a warning it printed is on the console, and a rejection would
\* reject generateProject.
AwaitLookup(step, r, field, next) ==
  IF r.threw
  THEN /\ pc' = "failed"
       /\ err' = step
       /\ UNCHANGED <<lookup, console>>
  ELSE /\ lookup' = [lookup EXCEPT ![field] = r.value]
       /\ console' = IF r.warning = "" THEN console ELSE Append(console, Warn(r.warning))
       /\ pc' = next
       /\ UNCHANGED err

getCoreVersion ==
  /\ pc = "getCoreVersion"
  /\ \E o \in FetchOutcomes(registry) :
       AwaitLookup("getCoreVersion", getLatestDigitalTwinCoreVersion(o), "core",
                   "getCliVersion")
  /\ UNCHANGED <<dirs, ensured, files, written>>
  /\ Fixed

\* generatePackageJson, second await (part_001).
getCliVersion ==
  /\ pc = "getCliVersion"
  /\ \E o \in FetchOutcomes(registry) :
       AwaitLookup("getCliVersion", getLatestDigitalTwinCliVersion(o), "cli",
                   "writePackageJson")
  /\ UNCHANGED <<dirs, ensured, files, written>>
  /\ Fixed

writePackageJson ==
  /\ pc = "writePackageJson"
  /\ WriteFile("writePackageJson", <<"package.json">>,
               PackageJson(rev, answers, lookup), "ensureSrcDir")
  /\ UNCHANGED lookup
  /\ Fixed

\* Mutant: generateAppFiles goes on to write without creating src/.
ensureSrcDir_Skipped ==
  /\ pc = "ensureSrcDir"
  /\ pc' = "writeIndex"
  /\ UNCHANGED <<dirs, ensured, files, written, err, console, lookup>>
  /\ Fixed

\* generateAppFiles
ensureSrcDir ==
  /\ pc = "ensureSrcDir"
  /\ EnsureDir("ensureSrcDir", <<"src">>, "writeIndex")
  /\ UNCHANGED lookup
  /\ Fixed

writeIndex ==
  /\ pc = "writeIndex"
  /\ WriteFile("writeIndex", <<"src", "index.ts">>, generateIndexFile(rev, answers),
               IF rev = "part_001" THEN "writeTsConfig" ELSE "writeCliFile")
  /\ UNCHANGED lookup
  /\ Fixed

writeCliFile ==
  /\ pc = "writeCliFile"
  /\ WriteFile("writeCliFile", <<"src", "dt-cli.ts">>, generateCliFile(rev, answers),
               "writeTsConfig")
  /\ UNCHANGED lookup
  /\ Fixed

writeTsConfig ==
  /\ pc = "writeTsConfig"
  /\ WriteFile("writeTsConfig", <<"tsconfig.json">>, generateTsConfig(rev), "writeEnv")
  /\ UNCHANGED lookup
  /\ Fixed

\* Mutant: the Docker files are written whatever includeDocker says.
AfterExamples_AlwaysDocker(a) == "writeDockerfile"

\* Mutant: the example components are written whatever includeExamples says.
AfterConfig_AlwaysExamples(a) == "ensureComponentsDir"

\* Where generateProject goes after generateConfigFiles, and after the
\* example components.
AfterExamples(a) == IF a.includeDocker THEN "writeDockerfile" ELSE "writeReadme"

AfterConfig(a) == IF a.includeExamples THEN "ensureComponentsDir" ELSE AfterExamples(a)

\* generateConfigFiles
writeEnv ==
  /\ pc = "writeEnv"
  /\ WriteFile("writeEnv", <<".env">>, generateEnvFile(answers), "writeGitignore")
  /\ UNCHANGED lookup
  /\ Fixed

writeGitignore ==
  /\ pc = "writeGitignore"
  /\ WriteFile("writeGitignore", <<".gitignore">>, gitignoreContent, AfterConfig(answers))
  /\ UNCHANGED lookup
  /\ Fixed

\* generateExampleComponents
ensureComponentsDir ==
  /\ pc = "ensureComponentsDir"
  /\ EnsureDir("ensureComponentsDir", componentsDir, "writeCollector")
  /\ UNCHANGED lookup
  /\ Fixed

writeCollector ==
  /\ pc = "writeCollector"
  /\ WriteFile("writeCollector", Append(componentsDir, collectorFile(rev)),
               collectorContent(rev),
               IF rev = "project_ts" THEN "writeHandler" ELSE "writeComponentsIndex")
  /\ UNCHANGED lookup
  /\ Fixed

writeHandler ==
  /\ pc = "writeHandler"
  /\ WriteFile("writeHandler", Append(componentsDir, "data-processor.ts"),
               handlerContent, "writeComponentsIndex")
  /\ UNCHANGED lookup
  /\ Fixed

\* Mutant: the components index is written over the entry point.
writeComponentsIndex_OverEntryPoint ==
  /\ pc = "writeComponentsIndex"
  /\ WriteFile("writeComponentsIndex", <<"src", "index.ts">>,
               componentsIndexContent(rev), AfterExamples(answers))
  /\ UNCHANGED lookup
  /\ Fixed

writeComponentsIndex ==
  /\ pc = "writeComponentsIndex"
  /\ WriteFile("writeComponentsIndex", Append(componentsDir, "index.ts"),
               componentsIndexContent(rev), AfterExamples(answers))
  /\ UNCHANGED lookup
  /\ Fixed

\* generateDockerFiles
writeDockerfile ==
  /\ pc = "writeDockerfile"
  /\ WriteFile("writeDockerfile", <<"Dockerfile">>, dockerfileContent, "writeDockerCompose")
  /\ UNCHANGED lookup
  /\ Fixed

writeDockerCompose ==
  /\ pc = "writeDockerCompose"
  /\ WriteFile("writeDockerCompose", <<"docker-compose.yml">>,
               dockerComposeContent(answers), "writeReadme")
  /\ UNCHANGED lookup
  /\ Fixed

\* generateReadme
writeReadme ==
  /\ pc = "writeReadme"
  /\ WriteFile("writeReadme", <<"README.md">>, readmeContent(answers),
               IF rev = "part_001" THEN "writeDtCli" ELSE "done")
  /\ UNCHANGED lookup
  /\ Fixed

\* generateDtCli (part_001)
writeDtCli ==
  /\ pc = "writeDtCli"
  /\ WriteFile("writeDtCli", <<"dt.js">>, dtCliContent, "done")
  /\ UNCHANGED lookup
  /\ Fixed

\* createDigitalTwinApp after generateProject resolved: the success message
\* and the next steps; the program action returns and the process ends.
SuccessOutput(a) ==
  <<Log("Project created successfully!"), Log("Next steps:"),
    Log("  cd " \o a.projectName), Log("  npm install"),
    Log("  npm run dev     # Start the development server"),
    Log("  node dt test    # Run dry-run test")>>

printSuccess ==
  /\ pc = "done"
  /\ console' = console \o SuccessOutput(answers)
  /\ pc' = "exited"
  /\ UNCHANGED <<rev, answers, registry, dirs, ensured, files, written, lookup, run,
                 prev, prevLookup, err, exitCode, app>>

\* Mutant: the catch prints the error and lets the process end normally.
catchError_NoExit ==
  /\ pc = "failed"
  /\ console' = Append(console, Error("Error creating project:", err))
  /\ pc' = "exited"
  /\ UNCHANGED <<rev, answers, registry, dirs, ensured, files, written, lookup, run,
                 prev, prevLookup, err, exitCode, app>>

\* createDigitalTwinApp's catch: console.error and process.exit(1).
catchError ==
  /\ pc = "failed"
  /\ console' = Append(console, Error("Error creating project:", err))
  /\ exitCode' = 1
  /\ pc' = "exited"
  /\ UNCHANGED <<rev, answers, registry, dirs, ensured, files, written, lookup, run,
                 prev, prevLookup, err, app>>

\* The tool is run again with the same answers on the same path.
Rerun ==
  /\ pc = "exited"
  /\ exitCode = 0
  /\ run < MaxRuns
  /\ run' = run + 1
  /\ prev' = files
  /\ prevLookup' = lookup
  /\ lookup' = NoLookup
  /\ written' = <<>>
  /\ ensured' = {}
  /\ console' = Banner
  /\ exitCode' = 0
  /\ pc' = "getProjectPrompts"
  /\ UNCHANGED <<rev, answers, registry, dirs, files, err, app>>

Next ==
  \/ getProjectPrompts
  \/ ensureProjectDir
  \/ getCoreVersion
  \/ getCliVersion
  \/ writePackageJson
  \/ ensureSrcDir
  \/ writeIndex
  \/ writeCliFile
  \/ writeTsConfig
  \/ writeEnv
  \/ writeGitignore
  \/ ensureComponentsDir
  \/ writeCollector
  \/ writeHandler
  \/ writeComponentsIndex
  \/ writeDockerfile
  \/ writeDockerCompose
  \/ writeReadme
  \/ writeDtCli
  \/ printSuccess
  \/ catchError
  \/ Rerun

Spec == Init /\ [][Next]_vars

Done == pc = "done"

\* The paths the current run has written.
Written == Range(written)

\* ------------------------------------------------------- reading artifacts

PackageJsonPath == <<"package.json">>
IndexPath == <<"src", "index.ts">>
EnvPath == <<".env">>
ComposePath == <<"docker-compose.yml">>
ReadmePath == <<"README.md">>

\* Modules Node resolves without a package.
NodeBuiltins == {"child_process", "url", "path", "fs"}

\* npm scopes: a scoped package's name is its first two segments.
Scopes == {"@aws-sdk", "@types"}

IsRelative(from) == from[1] \in {".", ".."}

PackageName(from) ==
  IF from[1] \in Scopes THEN from[1] \o "/" \o from[2] ELSE from[1]

\* The packages a generated source file imports.
ImportedPackages(content) ==
  {PackageName(content.imports[i].from) :
     i \in {j \in DOMAIN content.imports :
              /\ ~IsRelative(content.imports[j].from)
              /\ content.imports[j].from[1] \notin NodeBuiltins}}

SourceKinds == {"index.ts", "dt-cli.ts", "dt.js", "collector", "handler"}

ManifestPackages(pkg) == DOMAIN pkg.dependencies \cup DOMAIN pkg.devDependencies

SchemaNames(content) == {content.schema[i].name : i \in DOMAIN content.schema}

OptionalServices(a) ==
  (IF a.database = "postgresql" THEN {"postgres"} ELSE {})
    \cup (IF a.useRedis THEN {"redis"} ELSE {})

\* The number of optional guide steps the options select.
OptionalSteps(a) ==
  (IF a.database = "postgresql" THEN 1 ELSE 0) + (IF a.useRedis THEN 1 ELSE 0)

LastStep(content) == StepValue(content.steps[Len(content.steps)].num)

HasStep(content, title) == \E i \in DOMAIN content.steps : content.steps[i].title = title

\* ------------------------------------------------------- C1

\* C1: after a successful generateProject the written paths contain files
\* under src/components/ exactly when includeExamples is set (and then the
\* collector and the components index), and Dockerfile and
\* docker-compose.yml exactly when includeDocker is set.
C1_GatedArtifacts ==
  Done =>
    /\ (\E p \in Written : IsPrefix(componentsDir, p)) <=> answers.includeExamples
    /\ answers.includeExamples =>
         {Append(componentsDir, collectorFile(rev)), Append(componentsDir, "index.ts")}
           \subseteq Written
    /\ <<"Dockerfile">> \in Written <=> answers.includeDocker
    /\ ComposePath \in Written <=> answers.includeDocker

C1_Witness ==
  /\ Done
  /\ answers.includeExamples
  /\ ~answers.includeDocker
  /\ Append(componentsDir, "index.ts") \in Written
  /\ <<"Dockerfile">> \notin Written

\* ------------------------------------------------------- C2

\* C2: in a generated project every package imported by src/index.ts, by the
\* CLI wrapper (src/dt-cli.ts or dt.js) and by the example components is a
\* key of the manifest's dependencies or devDependencies.
C2_ImportsInManifest ==
  Done =>
    \A p \in DOMAIN files :
      files[p].kind \in SourceKinds =>
        ImportedPackages(files[p]) \subseteq ManifestPackages(files[PackageJsonPath])

C2_Witness ==
  /\ Done
  /\ rev = "part_001"
  /\ answers.includeExamples
  /\ "dotenv" \in ImportedPackages(files[IndexPath])
  /\ <<"dt.js">> \in DOMAIN files

\* ------------------------------------------------------- C3

\* C3 as stated: the keys of the entry point's Env.validate schema equal the
\* KEY names of the environment template.
C3_Original ==
  Done => SchemaNames(files[IndexPath]) = EnvKeys(files[EnvPath])

\* C3 amended: every schema key is a KEY of the template, and the template
\* has exactly two further keys, NODE_ENV and LOG_LEVEL, that the entry
\* point does not declare.
C3_SchemaWithinTemplate ==
  Done =>
    /\ SchemaNames(files[IndexPath]) \subseteq EnvKeys(files[EnvPath])
    /\ EnvKeys(files[EnvPath]) \ SchemaNames(files[IndexPath]) = {"NODE_ENV", "LOG_LEVEL"}

C3_Witness ==
  /\ Done
  /\ answers.useRedis
  /\ answers.storage = "ovh"
  /\ {"REDIS_HOST", "OVH_BUCKET", "NODE_ENV"} \subseteq EnvKeys(files[EnvPath])
  /\ "NODE_ENV" \notin SchemaNames(files[IndexPath])

\* ------------------------------------------------------- C4

\* C4: with includeDocker, the services of docker-compose.yml are app, plus
\* postgres exactly for postgresql, plus redis exactly with useRedis, and the
\* named volume postgres_data is declared exactly for postgresql.
C4_ComposeServices ==
  (Done /\ answers.includeDocker) =>
    /\ ComposeServices(files[ComposePath]) = {"app"} \cup OptionalServices(answers)
    /\ "postgres_data" \in NamedVolumes(files[ComposePath])
         <=> answers.database = "postgresql"
    /\ NamedVolumes(files[ComposePath]) \subseteq {"postgres_data"}

C4_Witness ==
  /\ Done
  /\ answers.includeDocker
  /\ answers.database = "postgresql"
  /\ ~answers.useRedis
  /\ ComposeServices(files[ComposePath]) = {"app", "postgres"}
  /\ NamedVolumes(files[ComposePath]) = {"postgres_data"}

\* ------------------------------------------------------- C5

\* C5 as stated: the app service's depends_on entries are exactly the
\* optional services present, and with sqlite and no Redis the composition
\* holds only app and declares no depends_on at all.
C5_DependsOn ==
  (Done /\ answers.includeDocker) =>
    /\ DependsOn(files[ComposePath], "app") = OptionalServices(answers)
    /\ (answers.database = "sqlite" /\ ~answers.useRedis) =>
         /\ ComposeServices(files[ComposePath]) = {"app"}
         /\ "depends_on" \notin ServiceKeys(files[ComposePath], "app")

\* ------------------------------------------------------- C6

\* C6: the Getting Started steps are numbered 1..n in order, the PostgreSQL
\* step is there exactly for postgresql and the Redis step exactly with
\* useRedis.
C6_StepsContiguous ==
  Done =>
    LET readme == files[ReadmePath]
    IN /\ \A i \in DOMAIN readme.steps : StepNumbers(readme)[i] = i
       /\ HasStep(readme, "Set up PostgreSQL:") <=> answers.database = "postgresql"
       /\ HasStep(readme, "Set up Redis:") <=> answers.useRedis
       /\ Len(readme.steps) = 3 + OptionalSteps(answers)

C6_Witness ==
  /\ Done
  /\ answers.database = "sqlite"
  /\ answers.useRedis
  /\ StepNumbers(files[ReadmePath]) = <<1, 2, 3, 4>>

\* ------------------------------------------------------- C7

\* C7 as stated: the number on the final Start development server step is
\* 2 plus the number of optional steps present.
C7_Original ==
  Done => LastStep(files[ReadmePath]) = 2 + OptionalSteps(answers)

\* C7 amended: the final step is the Start development server step and its
\* number is 3 plus the number of optional steps present.
C7_FinalStep ==
  Done =>
    LET readme == files[ReadmePath]
    IN /\ readme.steps[Len(readme.steps)].title = "Start development server:"
       /\ LastStep(readme) = 3 + OptionalSteps(answers)

C7_Witness ==
  /\ Done
  /\ answers.database = "postgresql"
  /\ answers.useRedis
  /\ LastStep(files[ReadmePath]) = 5

\* ------------------------------------------------------- C8

MinimalOptions ==
  /\ answers.database = "sqlite"
  /\ answers.storage = "local"
  /\ ~answers.useRedis
  /\ ~answers.includeDocker
  /\ ~answers.includeExamples

SixArtifacts ==
  {PackageJsonPath, IndexPath, <<"tsconfig.json">>, EnvPath, <<".gitignore">>, ReadmePath}

EmbeddedDrivers == {"sqlite3", "better-sqlite3"}

\* C8 as stated: for sqlite, local storage, no Redis, no Docker and no
\* examples, a successful run writes exactly the six files package.json,
\* src/index.ts, tsconfig.json, .env, .gitignore and README.md; the manifest
\* has the embedded-database driver and not pg; the template has DB_PATH and
\* none of DB_HOST, DB_USER, DB_PASSWORD.
C8_Original ==
  (Done /\ MinimalOptions) =>
    /\ Written = SixArtifacts
    /\ EmbeddedDrivers \cap DOMAIN files[PackageJsonPath].dependencies # {}
    /\ "pg" \notin DOMAIN files[PackageJsonPath].dependencies
    /\ "DB_PATH" \in EnvKeys(files[EnvPath])
    /\ EnvKeys(files[EnvPath]) \cap {"DB_HOST", "DB_USER", "DB_PASSWORD"} = {}

\* C8 amended: the run writes exactly seven files, the six above and the
\* CLI wrapper (dt.js in part_001, src/dt-cli.ts in the earlier revisions);
\* the statements about the manifest and the template stand.
C8_SevenArtifacts ==
  (Done /\ MinimalOptions) =>
    /\ Written = SixArtifacts
                   \cup {IF rev = "part_001" THEN <<"dt.js">> ELSE <<"src", "dt-cli.ts">>}
    /\ Len(written) = 7
    /\ (IF rev = "project_ts" THEN "sqlite3" ELSE "better-sqlite3")
         \in DOMAIN files[PackageJsonPath].dependencies
    /\ "pg" \notin DOMAIN files[PackageJsonPath].dependencies
    /\ "DB_PATH" \in EnvKeys(files[EnvPath])
    /\ EnvKeys(files[EnvPath]) \cap {"DB_HOST", "DB_USER", "DB_PASSWORD"} = {}

C8_Witness ==
  /\ Done
  /\ MinimalOptions
  /\ rev = "part_001"
  /\ answers.projectName = "demo"
  /\ <<"dt.js">> \in Written
  /\ "better-sqlite3" \in DOMAIN files[PackageJsonPath].dependencies

\* ------------------------------------------------------- C9

\* A manifest with the two looked-up version constraints blanked.
MaskLookedUp(pkg) ==
  [pkg EXCEPT
     !.dependencies =
       [k \in DOMAIN @ |-> IF k = "digitaltwin-core" THEN "" ELSE @[k]],
     !.devDependencies =
       [k \in DOMAIN @ |-> IF k = "digitaltwin-cli" THEN "" ELSE @[k]]]

SecondRunDone == Done /\ run > 1

\* C9 as stated: two runs of generateProject on the same options record
\* leave the same paths with identical content.
C9_Original == SecondRunDone => files = prev

\* C9 amended: two runs on the same options record leave the same paths, and
\* identical content at every path other than package.json; package.json is
\* identical up to the version constraints of digitaltwin-core and
\* digitaltwin-cli, which are what the registry lookup of that run returned,
\* so the runs agree everywhere when their lookups agree.
C9_DeterministicUpToLookup ==
  SecondRunDone =>
    /\ DOMAIN files = DOMAIN prev
    /\ \A p \in DOMAIN files : p # PackageJsonPath => files[p] = prev[p]
    /\ MaskLookedUp(files[PackageJsonPath]) = MaskLookedUp(prev[PackageJsonPath])
    /\ lookup = prevLookup => files = prev
    /\ rev = "part_001" =>
         /\ files[PackageJsonPath].dependencies["digitaltwin-core"] = "^" \o lookup.core
         /\ files[PackageJsonPath].devDependencies["digitaltwin-cli"] = "^" \o lookup.cli

C9_Witness ==
  /\ SecondRunDone
  /\ rev = "part_001"
  /\ lookup.core # prevLookup.core
  /\ files[PackageJsonPath] # prev[PackageJsonPath]
  /\ files[IndexPath] = prev[IndexPath]

\* ------------------------------------------------------- C10

\* C10: the manifest's dependencies always hold digitaltwin-core, knex and
\* commander; pg (with @types/pg in devDependencies) exactly for postgresql
\* and an embedded-database driver exactly for sqlite, never both; the S3
\* client exactly for ovh storage; ioredis exactly with useRedis; and
\* devDependencies always hold @types/node, typescript and a watch/run
\* helper (tsx or ts-node-dev).
C10_Dependencies ==
  PackageJsonPath \in DOMAIN files =>
    LET deps == DOMAIN files[PackageJsonPath].dependencies
        dev == DOMAIN files[PackageJsonPath].devDependencies
    IN /\ {"digitaltwin-core", "knex", "commander"} \subseteq deps
       /\ "pg" \in deps <=> answers.database = "postgresql"
       /\ "@types/pg" \in dev <=> answers.database = "postgresql"
       /\ EmbeddedDrivers \cap deps # {} <=> answers.database = "sqlite"
       /\ ~("pg" \in deps /\ EmbeddedDrivers \cap deps # {})
       /\ "@aws-sdk/client-s3" \in deps <=> answers.storage = "ovh"
       /\ "ioredis" \in deps <=> answers.useRedis
       /\ {"@types/node", "typescript"} \subseteq dev
       /\ {"tsx", "ts-node-dev"} \cap dev # {}

C10_Witness ==
  /\ Done
  /\ answers.database = "postgresql"
  /\ answers.storage = "ovh"
  /\ answers.useRedis
  /\ {"pg", "ioredis", "@aws-sdk/client-s3"}
       \subseteq DOMAIN files[PackageJsonPath].dependencies
  /\ "@types/pg" \in DOMAIN files[PackageJsonPath].devDependencies

\* ------------------------------------------------------- C11

\* The schema variables of each concern, as the entry point names them.
DatabaseVars == {"DB_HOST", "DB_PORT", "DB_USER", "DB_PASSWORD", "DB_NAME", "DB_PATH"}
StorageVars ==
  {"STORAGE_PATH", "OVH_ACCESS_KEY", "OVH_SECRET_KEY", "OVH_ENDPOINT", "OVH_REGION",
   "OVH_BUCKET"}
QueueVars == {"REDIS_HOST", "REDIS_PORT"}

\* The declarations of a written entry point's schema that fall in a concern.
SchemaVars(content, concern) ==
  {content.schema[i] : i \in {j \in DOMAIN content.schema : content.schema[j].name \in concern}}

Required(decls) == {d \in decls : ~d.optional}
Optional(decls) == {d \in decls : d.optional}
UrlFormatted(decls) == {d \in decls : d.format = "url"}

\* What holds of the schema under either reading: the optional PORT, one
\* optional path variable for sqlite and for local storage, two optional
\* queue variables exactly with useRedis, and nothing outside the concerns.
C11_Common(s) ==
  LET db == SchemaVars(s, DatabaseVars)
      st == SchemaVars(s, StorageVars)
      q == SchemaVars(s, QueueVars)
  IN /\ SchemaVars(s, {"PORT"}) = {Var("PORT", "number", TRUE, "")}
     /\ SchemaNames(s) \subseteq {"PORT"} \cup DatabaseVars \cup StorageVars \cup QueueVars
     /\ Len(s.schema) = Cardinality(SchemaNames(s))
     /\ answers.database = "sqlite" =>
          /\ Cardinality(db) = 1
          /\ Optional(db) = db
     /\ answers.storage = "local" =>
          /\ Cardinality(st) = 1
          /\ Optional(st) = st
     /\ IF answers.useRedis
        THEN Cardinality(q) = 2 /\ Optional(q) = q
        ELSE q = {}

\* C11 as stated: postgresql adds exactly four variables, all required, and
\* object storage exactly four, all required, one of them URL-formatted.
C11_Original ==
  IndexPath \in DOMAIN files =>
    LET s == files[IndexPath]
        db == SchemaVars(s, DatabaseVars)
        st == SchemaVars(s, StorageVars)
    IN /\ C11_Common(s)
       /\ answers.database = "postgresql" =>
            /\ Cardinality(db) = 4
            /\ Required(db) = db
       /\ answers.storage = "ovh" =>
            /\ Cardinality(st) = 4
            /\ Required(st) = st
            /\ Cardinality(UrlFormatted(st)) = 1

\* C11 amended: the schema always declares the optional PORT; postgresql
\* adds five variables, four required ones and the optional DB_PORT; sqlite
\* one optional path variable; local storage one optional path variable;
\* object storage five variables, four required ones of which exactly one is
\* URL-formatted, and the optional OVH_REGION; two optional queue variables
\* exactly when useRedis is true; and no other variable.
C11_SchemaPerConcern ==
  IndexPath \in DOMAIN files =>
    LET s == files[IndexPath]
        db == SchemaVars(s, DatabaseVars)
        st == SchemaVars(s, StorageVars)
    IN /\ C11_Common(s)
       /\ answers.database = "postgresql" =>
            /\ Cardinality(db) = 5
            /\ Cardinality(Required(db)) = 4
            /\ {d.name : d \in Optional(db)} = {"DB_PORT"}
       /\ answers.storage = "ovh" =>
            /\ Cardinality(st) = 5
            /\ Cardinality(Required(st)) = 4
            /\ Cardinality(UrlFormatted(st)) = 1
            /\ UrlFormatted(st) \subseteq Required(st)
            /\ {d.name : d \in Optional(st)} = {"OVH_REGION"}

C11_Witness ==
  /\ IndexPath \in DOMAIN files
  /\ answers.database = "postgresql"
  /\ answers.storage = "ovh"
  /\ answers.useRedis
  /\ Cardinality(SchemaNames(files[IndexPath])) = 13
  /\ Cardinality(Optional(SchemaVars(files[IndexPath], QueueVars))) = 2

\* ------------------------------------------------------- C12

\* The process has ended through createDigitalTwinApp's catch.
ExitedWithError == pc = "exited" /\ exitCode = 1

\* C12: when a directory creation or a file write of generateProject fails,
\* the failing call changes nothing on disk, the error that reaches the
\* caller names that first failing call, and from then on no directory is
\* made and no file is written, replaced or removed: what was written before
\* the failure stays as it was.
C12_FailurePropagates ==
  [][/\ (pc # "failed" /\ pc' = "failed") =>
          /\ err' = pc
          /\ files' = files /\ dirs' = dirs /\ written' = written
     /\ (pc = "failed" \/ ExitedWithError) =>
          /\ err' = err
          /\ files' = files /\ dirs' = dirs /\ written' = written
     /\ pc = "failed" =>
          /\ pc' = "exited"
          /\ console' = Append(console, Error("Error creating project:", err))]_vars

C12_Witness ==
  /\ ExitedWithError
  /\ rev = "part_001"
  /\ run = 1
  /\ err = "writeEnv"
  /\ written = <<PackageJsonPath, IndexPath, <<"tsconfig.json">>>>
  /\ DOMAIN files = Range(written)
  /\ files[PackageJsonPath] = PackageJson(rev, answers, lookup)
  /\ console[Len(console)] = Error("Error creating project:", "writeEnv")

\* ------------------------------------------------------- C13

\* Values outside DatabaseType and StorageType: the types are erased at run
\* time, so generateProject can be handed any string.
UnknownDatabases == {"mysql"}
UnknownStorages == {"s3"}

\* ProjectAnswers records with an illegal database or storage.
UnvalidatedAnswers ==
  [projectName : ProjectNames, database : Databases \cup UnknownDatabases,
   storage : Storages \cup UnknownStorages, localStoragePath : LocalStoragePaths,
   useRedis : BOOLEAN, includeDocker : BOOLEAN, includeExamples : BOOLEAN]
    \ ProjectAnswers

\* The tool started on answers that violate the enums.
InitUnvalidated ==
  /\ rev \in Revisions
  /\ answers \in UnvalidatedAnswers
  /\ pc = "getProjectPrompts"
  /\ dirs = {}
  /\ files = EmptyMap
  /\ written = <<>>
  /\ lookup = NoLookup
  /\ run = 1
  /\ prev = EmptyMap
  /\ prevLookup = NoLookup
  /\ err = ""
  /\ ensured = {}
  /\ registry = "any"
  /\ console = Banner
  /\ exitCode = 0
  /\ app = Idle

SpecUnvalidated == InitUnvalidated /\ [][Next]_vars

\* C13 (under SpecUnvalidated): with a database outside {sqlite, postgresql}
\* or a storage outside {local, ovh}, generateProject fails before any
\* directory or file is created, and never completes as if the value were a
\* legal choice.
C13_RejectsUnknownEnum ==
  answers \notin ProjectAnswers =>
    /\ dirs = {}
    /\ files = EmptyMap
    /\ pc \in {"getProjectPrompts", "ensureProjectDir", "failed", "exited"}
    /\ pc = "exited" => exitCode = 1

\* ------------------------------------------------------- C14

\* '^' + v for the versions a lookup is meant to return.
UsableConstraints(fallback) == {"^" \o v : v \in RegistryVersions \cup {fallback}}

\* C14: the version lookup never raises, and whatever the registry does
\* (network error, non-success status, unparsable body, body without a
\* version field) the manifest's digitaltwin-core and digitaltwin-cli
\* constraints are '^' followed by the registry's version or by the
\* hard-coded fallback.
C14_UsableVersions ==
  /\ err \notin {"getCoreVersion", "getCliVersion"}
  /\ (rev = "part_001" /\ PackageJsonPath \in DOMAIN files) =>
       /\ files[PackageJsonPath].dependencies["digitaltwin-core"]
            \in UsableConstraints(CoreFallback)
       /\ files[PackageJsonPath].devDependencies["digitaltwin-cli"]
            \in UsableConstraints(CliFallback)

\* ------------------------------------------------------- C15

\* The latest revision run once, against a registry that behaves in any way
\* or one that never answers.
InitLatest ==
  /\ rev = "part_001"
  /\ answers \in ProjectAnswers
  /\ pc = "getProjectPrompts"
  /\ dirs = {}
  /\ files = EmptyMap
  /\ written = <<>>
  /\ lookup = NoLookup
  /\ run = 1
  /\ prev = EmptyMap
  /\ prevLookup = NoLookup
  /\ err = ""
  /\ ensured = {}
  /\ registry \in {"any", "unresponsive"}
  /\ console = Banner
  /\ exitCode = 0
  /\ app = Idle

\* The awaits of generateProject in part_001 and what follows them in
\* createDigitalTwinApp.
GenerateLatest ==
  \/ ensureProjectDir
  \/ getCoreVersion
  \/ getCliVersion
  \/ writePackageJson
  \/ ensureSrcDir
  \/ writeIndex
  \/ writeTsConfig
  \/ writeEnv
  \/ writeGitignore
  \/ ensureComponentsDir
  \/ writeCollector
  \/ writeComponentsIndex
  \/ writeDockerfile
  \/ writeDockerCompose
  \/ writeReadme
  \/ writeDtCli
  \/ printSuccess
  \/ catchError

NextLatest == getProjectPrompts \/ GenerateLatest

\* Every awaited file-system call and fetch settles (fetch at the latest by
\* the runtime giving up on the request) and the continuation then runs; the
\* prompts wait for the user and carry no such guarantee.
SpecLatest == InitLatest /\ [][NextLatest]_vars /\ WF_vars(GenerateLatest)

\* How a run against a registry that never answers ends: both fallbacks
\* substituted, both warnings printed, the lookups not the cause of any
\* failure, and, when no file-system call failed, every artifact written with
\* the fallback constraints in the manifest.
FallbackRunEnded ==
  /\ pc = "exited"
  /\ lookup = [core |-> CoreFallback, cli |-> CliFallback]
  /\ {Warn(CoreWarning), Warn(CliWarning)} \subseteq Range(console)
  /\ err \notin {"getCoreVersion", "getCliVersion"}
  /\ exitCode = 1 => err # ""
  /\ exitCode = 0 =>
       /\ files[PackageJsonPath].dependencies["digitaltwin-core"] = "^" \o CoreFallback
       /\ files[PackageJsonPath].devDependencies["digitaltwin-cli"] = "^" \o CliFallback
       /\ {PackageJsonPath, IndexPath, EnvPath, ReadmePath, <<"tsconfig.json">>,
           <<".gitignore">>, <<"dt.js">>} \subseteq Written
       /\ answers.includeDocker => ComposePath \in Written
       /\ answers.includeExamples => Append(componentsDir, "index.ts") \in Written

SuccessPrinted == Log("Project created successfully!") \in Range(console)
ErrorPrinted == \E i \in DOMAIN console : console[i].stream = "error"

\* generateProject has resolved in the current run: its last write is done.
GenerationCompleted ==
  /\ err = ""
  /\ pc \in {"done", "exited"}
  /\ (IF rev = "part_001" THEN <<"dt.js">> ELSE ReadmePath) = written[Len(written)]

\* C16: when prompt collection or generateProject fails the process prints
\* an error message and then ends with a non-zero status; the success output
\* is printed exactly when generateProject completed without error; and the
\* success output and a non-zero status never occur together.
C16_ExitAndOutput ==
  /\ err # "" => pc \in {"failed", "exited"}
  /\ pc = "failed" => ENABLED catchError
  /\ pc = "exited" =>
       /\ exitCode # 0 <=> err # ""
       /\ err # "" => console[Len(console)] = Error("Error creating project:", err)
       /\ SuccessPrinted <=> GenerationCompleted
  /\ exitCode # 0 => pc = "exited" /\ ErrorPrinted
  /\ SuccessPrinted => pc = "exited" /\ GenerationCompleted
  /\ ~(SuccessPrinted /\ exitCode # 0)
  /\ ~(SuccessPrinted /\ ErrorPrinted)

C16_Witness ==
  /\ pc = "exited"
  /\ err = "writeReadme"
  /\ exitCode = 1
  /\ ErrorPrinted
  /\ ~SuccessPrinted
  /\ PackageJsonPath \in Written

\* ------------------------------------------------------- running dt.js

\* node dt.js <args>: at most MaxArgs arguments drawn from CliArgs; the child
\* ends with a code in 0..MaxExitCode or is killed by a signal.
MaxArgs == 2
MaxExitCode == 2
CliArgs == {"test", "dev", "--verbose"}
Signals == {"SIGTERM", "SIGKILL"}

ArgLists == UNION {[1..n -> CliArgs] : n \in 0..MaxArgs}

\* What the 'exit' event reports: (code, null) or (null, signal).
ExitedWith(code) == [hasCode |-> TRUE, code |-> code, signal |-> ""]
KilledBy(signal) == [hasCode |-> FALSE, code |-> 0, signal |-> signal]
ChildEnds == {ExitedWith(n) : n \in 0..MaxExitCode} \cup {KilledBy(s) : s \in Signals}
NotEnded == [hasCode |-> FALSE, code |-> 0, signal |-> ""]

\* ['digitaltwin-cli', ...args] with the spread written out.
Spread(template, args) ==
  IF template = <<>> THEN <<>>
  ELSE IF template[Len(template)] = "...args"
       THEN SubSeq(template, 1, Len(template) - 1) \o args
       ELSE template

\* The argument of process.exit in the 'exit' listener: code || 0 is 0 for a
\* null code as for code 0.
ExitArgument(expr, end) ==
  IF expr = "code || 0"
  THEN IF end.hasCode /\ end.code # 0 THEN end.code ELSE 0
  ELSE 0

\* The generated project as far as node dt.js reads it.
InitDt ==
  /\ rev = "part_001"
  /\ answers \in {a \in ProjectAnswers : a.projectName = "demo" /\ a.localStoragePath = ""}
  /\ pc = "exited"
  /\ dirs = {<<>>}
  /\ files = (<<"dt.js">> :> dtCliContent)
  /\ written = <<>>
  /\ lookup = NoLookup
  /\ run = 1
  /\ prev = EmptyMap
  /\ prevLookup = NoLookup
  /\ err = ""
  /\ ensured = {}
  /\ registry = "any"
  /\ console = <<>>
  /\ exitCode = 0
  /\ app \in [prog : {"dt.js"}, pc : {"start"}, args : ArgLists, spawned : {<<>>},
              child : {NotEnded}, status : {NotEnded}]

\* const args = process.argv.slice(2); const child = spawn('npx', [...]).
dtSpawn ==
  /\ app.prog = "dt.js"
  /\ app.pc = "start"
  /\ LET script == files[<<"dt.js">>]
     IN app' = [app EXCEPT !.spawned = <<script.command>> \o Spread(script.argv, app.args),
                           !.pc = "waiting"]
  /\ UNCHANGED generator

\* The child process ends.
dtChildEnds ==
  /\ app.prog = "dt.js"
  /\ app.pc = "waiting"
  /\ \E end \in ChildEnds : app' = [app EXCEPT !.child = end, !.pc = "exit event"]
  /\ UNCHANGED generator

\* child.on('exit', (code) => process.exit(code || 0)).
dtOnExit ==
  /\ app.prog = "dt.js"
  /\ app.pc = "exit event"
  /\ app' = [app EXCEPT !.status = ExitedWith(ExitArgument(files[<<"dt.js">>].exit, app.child)),
                        !.pc = "exited"]
  /\ UNCHANGED generator

NextDt == dtSpawn \/ dtChildEnds \/ dtOnExit

SpecDt == InitDt /\ [][NextDt]_vars

\* ------------------------------------------------------- C17

\* C17 (under SpecDt): dt.js hands its arguments, in order and unmodified,
\* to digitaltwin-cli, and whenever the child has ended and the wrapper has
\* exited, the wrapper has ended as the child did: with the child's code, or,
\* for a child killed by a signal, not with a code the child did not report.
C17_ForwardsArgsAndStatus ==
  /\ app.pc # "start" => app.spawned = <<"npx", "digitaltwin-cli">> \o app.args
  /\ app.pc = "exited" => app.status = app.child

\* ------------------------------------------------------- C18

\* The path each write step of generateProject writes.
WriteTarget(step) ==
  CASE step = "writePackageJson" -> PackageJsonPath
    [] step = "writeIndex" -> IndexPath
    [] step = "writeCliFile" -> <<"src", "dt-cli.ts">>
    [] step = "writeTsConfig" -> <<"tsconfig.json">>
    [] step = "writeEnv" -> EnvPath
    [] step = "writeGitignore" -> <<".gitignore">>
    [] step = "writeCollector" -> Append(componentsDir, collectorFile(rev))
    [] step = "writeHandler" -> Append(componentsDir, "data-processor.ts")
    [] step = "writeComponentsIndex" -> Append(componentsDir, "index.ts")
    [] step = "writeDockerfile" -> <<"Dockerfile">>
    [] step = "writeDockerCompose" -> ComposePath
    [] step = "writeReadme" -> ReadmePath
    [] step = "writeDtCli" -> <<"dt.js">>

WriteSteps ==
  {"writePackageJson", "writeIndex", "writeCliFile", "writeTsConfig", "writeEnv",
   "writeGitignore", "writeCollector", "writeHandler", "writeComponentsIndex",
   "writeDockerfile", "writeDockerCompose", "writeReadme", "writeDtCli"}

\* C18: in every run, when generateProject comes to write a file the
\* directory that is to hold it has already been created successfully by
\* this run, and so has the directory of every file the run has written: the
\* project root before any write, src/ before src/index.ts, src/components/
\* before any example component file.
C18_DirectoryBeforeWrite ==
  /\ pc \in WriteSteps => Dirname(WriteTarget(pc)) \in ensured
  /\ \A p \in Written : Dirname(p) \in ensured
  /\ ensured \subseteq dirs
  /\ (pc \in WriteSteps \/ Written # {}) => <<>> \in ensured
  /\ (pc = "writeIndex" \/ IndexPath \in Written) => <<"src">> \in ensured
  /\ (pc \in {"writeCollector", "writeHandler", "writeComponentsIndex"}
        \/ \E p \in Written : IsPrefix(componentsDir, p)) => componentsDir \in ensured

C18_Witness ==
  /\ pc = "writeComponentsIndex"
  /\ run = 2
  /\ ensured = {<<>>, <<"src">>, componentsDir}
  /\ Append(componentsDir, collectorFile(rev)) \in Written
  /\ IndexPath \in Written

\* ------------------------------------------------------- C19

\* How many times the current run has written path p.
TimesWritten(p) == Cardinality({i \in DOMAIN written : written[i] = p})

\* The CLI wrapper of a revision: dt.js, and src/dt-cli.ts before it.
CliWrapperPath(r) == IF r = "part_001" THEN <<"dt.js">> ELSE <<"src", "dt-cli.ts">>

\* Manifest, entry point, compiler configuration, environment template,
\* ignore file, guide and CLI wrapper.
UnconditionalArtifacts(r) ==
  {PackageJsonPath, IndexPath, <<"tsconfig.json">>, EnvPath, <<".gitignore">>, ReadmePath,
   CliWrapperPath(r)}

\* C19: no run writes a path twice, and in every successful run, whatever
\* the option flags, each unconditional artifact (manifest, entry point,
\* compiler configuration, environment template, ignore file, guide, CLI
\* wrapper) is written exactly once.
C19_WrittenOnce ==
  /\ \A i, j \in DOMAIN written : written[i] = written[j] => i = j
  /\ GenerationCompleted => \A p \in UnconditionalArtifacts(rev) : TimesWritten(p) = 1

C19_Witness ==
  /\ GenerationCompleted
  /\ run = 2
  /\ answers.includeExamples
  /\ answers.includeDocker
  /\ rev = "project_ts"
  /\ Len(written) = 12
  /\ TimesWritten(CliWrapperPath(rev)) = 1

\* ------------------------------------------------------- running src/index.ts

\* At most MaxSigints interrupt signals reach a run of the entry point.
MaxSigints == 2

\* The constant each statement of main() declares, and the ones it reads.
Defines(stmt) ==
  CASE stmt = "Env.validate" -> {"env"}
    [] stmt = "new storage" -> {"storage"}
    [] stmt = "dbConfig" -> {"dbConfig"}
    [] stmt = "new KnexDatabaseAdapter" -> {"database"}
    [] stmt = "new DigitalTwinEngine" -> {"engine"}
    [] OTHER -> {}

Uses(stmt) ==
  CASE stmt = "new storage" -> {"env"}
    [] stmt = "dbConfig" -> {"env"}
    [] stmt = "new KnexDatabaseAdapter" -> {"dbConfig", "storage"}
    [] stmt = "new DigitalTwinEngine" -> {"database", "storage"}
    [] stmt = "await engine.start" -> {"engine"}
    [] stmt = "log port" -> {"engine", "env"}
    [] stmt = "process.on SIGINT" -> {"engine"}
    [] OTHER -> {}

\* The generated project as far as the entry point's control flow reads it.
InitEntry ==
  /\ rev \in Revisions
  /\ answers \in {a \in ProjectAnswers : a.projectName = "demo" /\ a.localStoragePath = ""}
  /\ pc = "exited"
  /\ dirs = {<<>>, <<"src">>}
  /\ files = (IndexPath :> generateIndexFile(rev, answers))
  /\ written = <<>>
  /\ lookup = NoLookup
  /\ run = 1
  /\ prev = EmptyMap
  /\ prevLookup = NoLookup
  /\ err = ""
  /\ ensured = {}
  /\ registry = "any"
  /\ console = <<>>
  /\ exitCode = 0
  /\ app = [prog |-> "index.ts", pc |-> "main", ip |-> 1, trace |-> <<>>,
            engine |-> "none", handler |-> FALSE, sigints |-> 0, stopping |-> 0,
            status |-> NotEnded]

Main == files[IndexPath].main

\* main().catch: console.error and process.exit(1).
EntryCatch(event) ==
  app' = [app EXCEPT !.trace = app.trace \o <<event, "catch", "process.exit(1)">>,
                     !.status = ExitedWith(1), !.pc = "exited"]

\* The next synchronous statement of main() runs; after the last one main
\* returns and the process stays up serving.
entryStatement ==
  /\ app.prog = "index.ts"
  /\ app.pc = "main"
  /\ app.ip <= Len(Main)
  /\ LET stmt == Main[app.ip]
         last == app.ip = Len(Main)
     IN IF stmt = "await engine.start"
        THEN app' = [app EXCEPT !.trace = Append(app.trace, stmt), !.engine = "starting",
                                !.pc = "starting"]
        ELSE app' = [app EXCEPT !.trace = Append(app.trace, stmt),
                                !.handler = app.handler \/ stmt = "process.on SIGINT",
                                !.engine = IF stmt = "new DigitalTwinEngine"
                                           THEN "constructed" ELSE app.engine,
                                !.ip = app.ip + 1,
                                !.pc = IF last THEN "serving" ELSE "main"]
  /\ UNCHANGED generator

\* Env.validate throws on a missing or malformed variable.
entryValidateThrows ==
  /\ app.prog = "index.ts"
  /\ app.pc = "main"
  /\ app.ip <= Len(Main)
  /\ Main[app.ip] = "Env.validate"
  /\ EntryCatch("Env.validate threw")
  /\ UNCHANGED generator

entryStartResolves ==
  /\ app.prog = "index.ts"
  /\ app.pc = "starting"
  /\ app' = [app EXCEPT !.trace = Append(app.trace, "engine.start resolved"),
                        !.engine = "started", !.ip = app.ip + 1,
                        !.pc = IF app.ip = Len(Main) THEN "serving" ELSE "main"]
  /\ UNCHANGED generator

entryStartRejects ==
  /\ app.prog = "index.ts"
  /\ app.pc = "starting"
  /\ EntryCatch("engine.start rejected")
  /\ UNCHANGED generator

\* SIGINT arrives: with no listener registered the process is killed; with
\* the listener it logs and calls engine.stop().
entrySigint ==
  /\ app.prog = "index.ts"
  /\ app.pc # "exited"
  /\ app.sigints < MaxSigints
  /\ IF app.handler
     THEN app' = [app EXCEPT !.sigints = app.sigints + 1,
                             !.trace = app.trace \o <<"SIGINT", "engine.stop called">>,
                             !.engine = "stopping",
                             !.stopping = app.stopping + 1]
     ELSE app' = [app EXCEPT !.sigints = app.sigints + 1,
                             !.trace = Append(app.trace, "SIGINT"),
                             !.status = KilledBy("SIGINT"), !.pc = "exited"]
  /\ UNCHANGED generator

\* await engine.stop() resolves and the listener calls process.exit(0).
entryStopResolves ==
  /\ app.prog = "index.ts"
  /\ app.pc # "exited"
  /\ app.stopping > 0
  /\ app' = [app EXCEPT !.trace = app.trace \o <<"engine.stop resolved", "process.exit(0)">>,
                        !.engine = "stopped", !.stopping = app.stopping - 1,
                        !.status = ExitedWith(0), !.pc = "exited"]
  /\ UNCHANGED generator

\* await engine.stop() rejects: the listener's promise rejects unhandled and
\* the runtime ends the process with status 1.
entryStopRejects ==
  /\ app.prog = "index.ts"
  /\ app.pc # "exited"
  /\ app.stopping > 0
  /\ app' = [app EXCEPT !.trace = app.trace \o <<"engine.stop rejected", "unhandled rejection">>,
                        !.stopping = app.stopping - 1,
                        !.status = ExitedWith(1), !.pc = "exited"]
  /\ UNCHANGED generator

NextEntry ==
  \/ entryStatement
  \/ entryValidateThrows
  \/ entryStartResolves
  \/ entryStartRejects
  \/ entrySigint
  \/ entryStopResolves
  \/ entryStopRejects

SpecEntry == InitEntry /\ [][NextEntry]_vars

\* ------------------------------------------------------- C20

\* Event b has happened only after event a.
Precedes(a, b) ==
  \A j \in DOMAIN app.trace :
    app.trace[j] = b => \E i \in 1..(j - 1) : app.trace[i] = a

\* The constants declared by the statements run before position j.
DeclaredBefore(j) == UNION {Defines(app.trace[i]) : i \in 1..(j - 1)}

DisplayLogs == {"log port", "log database", "log storage", "log queue"}

\* C20 (under SpecEntry): the entry point validates the environment, then
\* constructs the storage adapter, then the database adapter from the runtime
\* configuration and the storage adapter, then the engine, then starts the
\* engine, and logs the port and the display strings only once the start has
\* resolved; and on an interrupt signal its handler calls process.exit only
\* after engine.stop() has resolved.
C20_StartupOrderAndShutdown ==
  /\ Precedes("Env.validate", "new storage")
  /\ Precedes("new storage", "new KnexDatabaseAdapter")
  /\ Precedes("dbConfig", "new KnexDatabaseAdapter")
  /\ Precedes("new KnexDatabaseAdapter", "new DigitalTwinEngine")
  /\ Precedes("new DigitalTwinEngine", "await engine.start")
  /\ \A l \in DisplayLogs : Precedes("engine.start resolved", l)
  /\ \A j \in DOMAIN app.trace : Uses(app.trace[j]) \subseteq DeclaredBefore(j)
  /\ \A i, j \in DOMAIN app.trace :
       (app.trace[i] = app.trace[j] /\ app.trace[i] \in Range(Main)) => i = j
  /\ app.pc = "serving" => DisplayLogs \subseteq Range(app.trace) /\ app.engine # "none"
  /\ Precedes("engine.stop called", "engine.stop resolved")
  /\ Precedes("engine.stop resolved", "process.exit(0)")
  /\ app.status = ExitedWith(0) => app.engine = "stopped"

C20_Witness ==
  /\ app.prog = "index.ts"
  /\ app.pc = "exited"
  /\ app.status = ExitedWith(0)
  /\ app.engine = "stopped"
  /\ SubSeq(app.trace, 1, Len(Main)) =
       <<"Env.validate", "new storage", "dbConfig", "new KnexDatabaseAdapter",
         "new DigitalTwinEngine", "await engine.start", "engine.start resolved",
         "log port", "log database", "log storage", "log queue">>
  /\ SubSeq(app.trace, Len(app.trace) - 3, Len(app.trace)) =
       <<"SIGINT", "engine.stop called", "engine.stop resolved", "process.exit(0)">>

\* ------------------------------------------------------- C21

ComponentsIndexPath == Append(componentsDir, "index.ts")

\* The class names the entry point imports from './components/index.js'.
ComponentImports(content) ==
  UNION {Range(content.imports[i].names) :
           i \in {j \in DOMAIN content.imports :
                    content.imports[j].from = <<".", "components", "index.js">>}}

\* The classes the entry point instantiates in the engine's component lists.
Instantiated(content) ==
  UNION {Range(content.engine[k]) : k \in DOMAIN content.engine \cap {"collectors", "handlers"}}

ReExported(index) == {index.reexports[i].name : i \in DOMAIN index.reexports}

\* The module specifier under which TypeScript resolves a source file.
JsSpecifier(ts) ==
  CASE ts = "random-data-collector.ts" -> "random-data-collector.js"
    [] ts = "jsonplaceholder_collector.ts" -> "jsonplaceholder_collector.js"
    [] ts = "data-processor.ts" -> "data-processor.js"
    [] ts = "index.ts" -> "index.js"
    [] OTHER -> ts

\* The './x.js' specifiers that resolve to a file on disk in src/components.
ResolvableModules ==
  {<<".", JsSpecifier(p[Len(p)])>> : p \in {q \in DOMAIN files : Dirname(q) = componentsDir}}

\* C21: with includeExamples, the classes the entry point imports from
\* './components/index.js' and the classes it instantiates both equal the
\* names the components index re-exports, and every module the index
\* re-exports from is a file the generator has written; without
\* includeExamples the entry point imports and registers no example
\* component.
C21_ExamplesAgree ==
  GenerationCompleted =>
    IF answers.includeExamples
    THEN /\ ComponentImports(files[IndexPath]) = ReExported(files[ComponentsIndexPath])
         /\ Instantiated(files[IndexPath]) = ReExported(files[ComponentsIndexPath])
         /\ \A i \in DOMAIN files[ComponentsIndexPath].reexports :
              files[ComponentsIndexPath].reexports[i].from \in ResolvableModules
    ELSE /\ ComponentImports(files[IndexPath]) = {}
         /\ Instantiated(files[IndexPath]) = {}

\* ------------------------------------------------------- C22

\* The env.X || fallback expressions of the entry point's storage and
\* database configuration that carry a fallback.
EntryFallbacks(content) ==
  {content.storageInit.fields[k] : k \in DOMAIN content.storageInit.fields}
    \cup {content.dbConfig.connection[k] : k \in DOMAIN content.dbConfig.connection}

\* C22: every fallback compiled into the entry point equals the value the
\* environment template declares for the same variable; for sqlite the
\* filename fallback is ./data/<projectName>.db and equals the template's
\* DB_PATH; for local storage the fallback is localStoragePath, or ./uploads
\* when that is absent, and equals the template's STORAGE_PATH.
C22_FallbacksAgree ==
  GenerationCompleted =>
    LET entry == files[IndexPath]
        env == files[EnvPath]
    IN /\ \A e \in EntryFallbacks(entry) :
            e.fallback # "" =>
              /\ e.env \in EnvKeys(env)
              /\ EnvValue(env, e.env) = e.fallback
       /\ answers.database = "sqlite" =>
            /\ entry.dbConfig.connection["filename"]
                 = EnvOr("DB_PATH", "./data/" \o answers.projectName \o ".db")
            /\ EnvValue(env, "DB_PATH") = "./data/" \o answers.projectName \o ".db"
       /\ answers.storage = "local" =>
            LET path == IF answers.localStoragePath = "" THEN "./uploads"
                        ELSE answers.localStoragePath
            IN /\ entry.storageInit.fields["path"] = EnvOr("STORAGE_PATH", path)
               /\ EnvValue(env, "STORAGE_PATH") = path

C22_Witness ==
  /\ GenerationCompleted
  /\ answers.database = "sqlite"
  /\ answers.storage = "local"
  /\ answers.localStoragePath = "./files"
  /\ answers.projectName = "my-app"
  /\ EnvValue(files[EnvPath], "STORAGE_PATH") = "./files"
  /\ files[IndexPath].storageInit.fields["path"].fallback = "./files"
  /\ EnvValue(files[EnvPath], "DB_PATH") = "./data/my-app.db"

\* ------------------------------------------------------- C23

\* What the composers of revision r produce for answers a, by path: the
\* artifacts whose content depends on the answers.
Composed(r, a, lk) ==
  (PackageJsonPath :> PackageJson(r, a, lk))
    @@ (IndexPath :> generateIndexFile(r, a))
    @@ (EnvPath :> generateEnvFile(a))
    @@ (ReadmePath :> readmeContent(a))
    @@ (IF a.includeDocker THEN ComposePath :> dockerComposeContent(a) ELSE EmptyMap)
    @@ (IF r = "part_001" THEN EmptyMap
        ELSE <<"src", "dt-cli.ts">> :> generateCliFile(r, a))

Restrict(f, keys) == [k \in DOMAIN f \cap keys |-> f[k]]

DbStoragePackages == {"pg", "sqlite3", "better-sqlite3", "@aws-sdk/client-s3", "@types/pg"}
QueuePackages == {"ioredis"}

SchemaEntries(content, names) == SelectSeq(content.schema, LAMBDA d : d.name \in names)
TemplateLines(content, names) ==
  SelectSeq(content.lines, LAMBDA l : l.t = "kv" /\ l.k \in names)

\* The database and storage fragments of a set of artifacts.
DbStorageFragments(F) ==
  [dependencies |-> Restrict(F[PackageJsonPath].dependencies, DbStoragePackages),
   devDependencies |-> Restrict(F[PackageJsonPath].devDependencies, DbStoragePackages),
   schema |-> SchemaEntries(F[IndexPath], DatabaseVars \cup StorageVars),
   template |-> TemplateLines(F[EnvPath], DatabaseVars \cup StorageVars),
   storageClass |-> F[IndexPath].storageClass,
   storageInit |-> F[IndexPath].storageInit,
   dbConfig |-> F[IndexPath].dbConfig,
   display |-> <<F[IndexPath].display.database, F[IndexPath].display.storage>>,
   guide |-> <<F[ReadmePath].features.database, F[ReadmePath].features.storage,
               F[ReadmePath].configuration.database, F[ReadmePath].configuration.storage,
               F[ReadmePath].createdb>>]

\* An artifact with its queue parts taken out: the queue dependency, the
\* REDIS_* schema entries and template lines, the queue display, the guide's
\* queue texts with its Redis step and the step numbers that follow from it,
\* and in docker-compose.yml the redis service and the app's dependence on it.
WithoutQueue(p, c) ==
  CASE p = PackageJsonPath ->
         [c EXCEPT !.dependencies = Restrict(@, DOMAIN @ \ QueuePackages)]
    [] p = IndexPath ->
         [c EXCEPT !.schema = SelectSeq(@, LAMBDA d : d.name \notin QueueVars),
                   !.display.queue = ""]
    [] p = EnvPath ->
         [c EXCEPT !.lines = SelectSeq(@, LAMBDA l : l.t = "kv" /\ l.k \notin QueueVars)]
    [] p = ReadmePath ->
         [c EXCEPT !.features.queue = "", !.configuration.queue = "",
                   !.steps = [i \in DOMAIN SelectSeq(@, LAMBDA s : s.title # "Set up Redis:")
                                |-> SelectSeq(@, LAMBDA s : s.title # "Set up Redis:")[i].title]]
    [] p = ComposePath ->
         [kind |-> c.kind,
          services |-> ComposeServices(c) \ {"redis"},
          dependsOn |-> DependsOn(c, "app") \ {"redis"},
          environment |-> [s \in ComposeServices(c) \ {"redis"} |-> ServiceEnvironment(c, s)],
          keys |-> [s \in ComposeServices(c) \ {"redis"} |-> ServiceKeys(c, s)],
          volumes |-> NamedVolumes(c)]
    [] OTHER -> c

\* The current answers with useRedis flipped.
RedisToggled == [answers EXCEPT !.useRedis = ~answers.useRedis]

FixedContents(r) ==
  {gitignoreContent, generateTsConfig(r), collectorContent(r), handlerContent,
   componentsIndexContent(r), dockerfileContent, dtCliContent}

\* C24: when storage is object storage no artifact depends on
\* localStoragePath: the artifacts of the run are those composed for any
\* options record that differs from the run's only in localStoragePath.
C24_PathIgnoredForObjectStorage ==
  (GenerationCompleted /\ answers.storage = "ovh") =>
    \A lp \in LocalStoragePaths :
      LET other == Composed(rev, [answers EXCEPT !.localStoragePath = lp], lookup)
      IN \A p \in DOMAIN files :
           IF p \in DOMAIN Composed(rev, answers, lookup)
           THEN p \in DOMAIN other /\ files[p] = other[p]
           ELSE files[p] \in FixedContents(rev)

C24_Witness ==
  /\ GenerationCompleted
  /\ answers.storage = "ovh"
  /\ answers.localStoragePath = "./files"
  /\ answers.includeDocker
  /\ files[IndexPath] = generateIndexFile(rev, [answers EXCEPT !.localStoragePath = ""])
  /\ files[IndexPath].display.storage = "OVH Object Storage"

\* ------------------------------------------------------- collect()
\* A call of the generated example collector's collect(), held in `app`.

MaxItems == 2

CollectorPath == Append(componentsDir, collectorFile("part_001"))

Requests == {"posts", "users"}

ItemLists == UNION {[1..n -> {"item"}] : n \in 0..MaxItems}

\* What a fetch can settle to: a response with a success status and a JSON
\* list, one whose body does not parse, one with an error status, a rejection.
FetchResults ==
  [kind : {"response"}, ok : {TRUE}, status : {"200"}, json : {TRUE}, items : ItemLists]
    \cup [kind : {"response"}, ok : {TRUE}, status : {"200"}, json : {FALSE}, items : {<<>>}]
    \cup [kind : {"response"}, ok : {FALSE}, status : {"404", "500"}, json : {TRUE},
          items : {<<>>}]
    \cup [kind : {"rejected"}, ok : {FALSE}, status : {"fetch failed"}, json : {FALSE},
          items : {<<>>}]

NotStarted == [kind |-> "not started", ok |-> FALSE, status |-> "", json |-> FALSE,
               items |-> <<>>]

Pending == [NotStarted EXCEPT !.kind = "pending"]

NoResult == [kind |-> "none"]

InitCollect ==
  /\ rev \in Revisions \ {"project_ts"}
  /\ answers \in {a \in ProjectAnswers : a.projectName = "demo" /\ a.localStoragePath = ""
                                           /\ a.includeExamples}
  /\ pc = "exited"
  /\ dirs = {<<>>, <<"src">>, componentsDir}
  /\ files = (CollectorPath :> collectorContent(rev))
  /\ written = <<>>
  /\ lookup = NoLookup
  /\ run = 1
  /\ prev = EmptyMap
  /\ prevLookup = NoLookup
  /\ err = ""
  /\ ensured = {}
  /\ registry = "any"
  /\ console = <<>>
  /\ exitCode = 0
  /\ app = [prog |-> "collect", pc |-> "try", ip |-> 1, startTime |-> 0, now |-> 0,
            fetches |-> [q \in Requests |-> NotStarted], order |-> <<>>,
            parsed |-> [q \in Requests |-> <<>>], result |-> NoResult]

Collect == files[CollectorPath].collect

Capitalised(q) == IF q = "posts" THEN "Posts" ELSE "Users"

\* The request a statement is about.
Request(stmt) ==
  IF stmt \in {"fetch posts", "check posts.ok", "await posts.json"} THEN "posts" ELSE "users"

\* The catch block: the error becomes the returned data.
\* Mutant: the catch block rethrows.
collectCatch_Rethrow(message) ==
  app' = [app EXCEPT !.pc = "returned",
                     !.result = [kind |-> "rejected", message |-> message]]

collectCatch(message) ==
  app' = [app EXCEPT !.pc = "returned",
                     !.result = [kind |-> "resolved", timestamp |-> app.now,
                                 source |-> "jsonplaceholder", error |-> TRUE,
                                 message |-> message,
                                 metadata |-> [collectionDuration |->
                                                 app.now - app.startTime]]]

\* Promise.all settles with the first rejection, or once every promise resolved.
Rejected == SelectSeq(app.order, LAMBDA q : app.fetches[q].kind = "rejected")

AllResolved == \A q \in Requests : app.fetches[q].kind = "response"

\* The next statement of the try block completes normally.
collectStatement ==
  /\ app.prog = "collect"
  /\ app.pc = "try"
  /\ LET stmt == Collect[app.ip]
         q == Request(stmt)
     IN CASE stmt \in {"fetch posts", "fetch users"} ->
               app' = [app EXCEPT !.fetches[q] = Pending, !.ip = app.ip + 1]
          [] stmt = "await Promise.all" ->
               /\ Rejected = <<>>
               /\ AllResolved
               /\ app' = [app EXCEPT !.ip = app.ip + 1]
          [] stmt \in {"check posts.ok", "check users.ok"} ->
               /\ app.fetches[q].ok
               /\ app' = [app EXCEPT !.ip = app.ip + 1]
          [] stmt \in {"await posts.json", "await users.json"} ->
               /\ app.fetches[q].json
               /\ app' = [app EXCEPT !.parsed[q] = app.fetches[q].items,
                                     !.ip = app.ip + 1]
          [] stmt = "return data" ->
               app' = [app EXCEPT !.pc = "returned",
                                  !.result =
                                    [kind |-> "resolved", timestamp |-> app.now,
                                     source |-> "jsonplaceholder",
                                     posts |-> app.parsed["posts"],
                                     users |-> app.parsed["users"],
                                     metadata |->
                                       [postsCount |-> Len(app.parsed["posts"]),
                                        usersCount |-> Len(app.parsed["users"]),
                                        collectionDuration |-> app.now - app.startTime]]]
  /\ UNCHANGED generator

\* The next statement of the try block throws and the catch block runs.
collectThrows ==
  /\ app.prog = "collect"
  /\ app.pc = "try"
  /\ LET stmt == Collect[app.ip]
         q == Request(stmt)
     IN CASE stmt = "await Promise.all" ->
               /\ Rejected # <<>>
               /\ collectCatch(app.fetches[Head(Rejected)].status)
          [] stmt \in {"check posts.ok", "check users.ok"} ->
               /\ ~app.fetches[q].ok
               /\ collectCatch(Capitalised(q) \o " API error: " \o app.fetches[q].status)
          [] stmt \in {"await posts.json", "await users.json"} ->
               /\ ~app.fetches[q].json
               /\ collectCatch("Unexpected token")
          [] OTHER -> FALSE
  /\ UNCHANGED generator

\* A pending request settles; time passes.
collectFetchSettles ==
  /\ app.prog = "collect"
  /\ app.pc = "try"
  /\ \E q \in Requests, o \in FetchResults :
       /\ app.fetches[q].kind = "pending"
       /\ app' = [app EXCEPT !.fetches[q] = o, !.order = Append(app.order, q),
                             !.now = app.now + 1]
  /\ UNCHANGED generator

NextCollect ==
  \/ collectStatement
  \/ collectThrows
  \/ collectFetchSettles

SpecCollect == InitCollect /\ [][NextCollect]_vars

\* ------------------------------------------------------- C25

AwaitStatements == {"await Promise.all", "await posts.json", "await users.json"}

\* The statements collect() has reached: those run and the one it is at.
Reached == {Collect[i] : i \in 1..app.ip}

Succeeded(q) == app.fetches[q].kind = "response" /\ app.fetches[q].ok

FailedFetch(q) ==
  \/ app.fetches[q].kind = "rejected"
  \/ app.fetches[q].kind = "response" /\ ~app.fetches[q].ok

C25_WitnessError ==
  /\ app.pc = "returned"
  /\ Succeeded("posts")
  /\ app.fetches["users"].kind = "response"
  /\ app.fetches["users"].status = "500"
  /\ app.result.error = TRUE
  /\ app.result.message = "Users API error: 500"

\* ------------------------------------------------------- C26

\* The entry point hands the engine a Redis connection configuration.
PassesRedis(content) == "redis" \in DOMAIN content.engine

\* C26: the entry point passes a Redis connection configuration to the engine
\* exactly when useRedis is true; with useRedis false, where the queue is
\* displayed as 'In-memory mode', the engine gets no Redis settings.
C26_RedisIffUseRedis ==
  GenerationCompleted =>
    /\ PassesRedis(files[IndexPath]) <=> answers.useRedis
    /\ (files[IndexPath].display.queue = "In-memory mode") =>
         ~PassesRedis(files[IndexPath])

\* ------------------------------------------------------- C27

\* C27: with Docker files and PostgreSQL, the postgres service's POSTGRES_DB,
\* POSTGRES_USER and POSTGRES_PASSWORD equal the template's DB_NAME, DB_USER
\* and DB_PASSWORD; the package name, DB_NAME, POSTGRES_DB, the SQLite file
\* name and the bucket default all come from the run's projectName.
C27_OneProjectName ==
  GenerationCompleted =>
    LET name == answers.projectName
        template == files[EnvPath]
    IN /\ files[PackageJsonPath].name = name
       /\ (answers.database = "postgresql") => EnvValue(template, "DB_NAME") = name
       /\ (answers.database # "postgresql") =>
            /\ EnvValue(template, "DB_PATH") = "./data/" \o name \o ".db"
            /\ files[IndexPath].dbConfig.connection["filename"].fallback
                 = "./data/" \o name \o ".db"
       /\ (answers.storage # "local") =>
            EnvValue(template, "OVH_BUCKET") = name \o "-storage"
       /\ (answers.includeDocker /\ answers.database = "postgresql") =>
            LET postgres == ServiceEnvironment(files[ComposePath], "postgres")
            IN /\ postgres["POSTGRES_DB"] = EnvValue(template, "DB_NAME")
               /\ postgres["POSTGRES_USER"] = EnvValue(template, "DB_USER")
               /\ postgres["POSTGRES_PASSWORD"] = EnvValue(template, "DB_PASSWORD")
               /\ postgres["POSTGRES_DB"] = name

C27_Witness ==
  /\ GenerationCompleted
  /\ answers.includeDocker
  /\ answers.database = "postgresql"
  /\ answers.storage = "ovh"
  /\ answers.projectName = "my-app"
  /\ ServiceEnvironment(files[ComposePath], "postgres")["POSTGRES_DB"] = "my-app"
  /\ EnvValue(files[EnvPath], "DB_NAME") = "my-app"
  /\ EnvValue(files[EnvPath], "OVH_BUCKET") = "my-app-storage"

\* ------------------------------------------------------- C28

DockerfilePath == <<"Dockerfile">>

\* The KEY=value settings the application container runs with: the app
\* service's environment list, and the template copied into the image when the
\* entry point loads it.
ContainerEnvironment(F) ==
  LET compose == F[ComposePath]
      listed == SubItems(compose.lines,
                         KeyLines(compose.lines,
                                  UNION {Below(compose.lines, i) :
                                           i \in ServiceLines(compose, "app")},
                                  4, "environment"))
      loaded == IF /\ \E i \in DOMAIN F[DockerfilePath].lines :
                        F[DockerfilePath].lines[i] = "COPY .env ./"
                   /\ "dotenv" \in ImportedPackages(F[IndexPath])
                THEN {k \o "=" \o EnvValue(F[EnvPath], k) : k \in EnvKeys(F[EnvPath])}
                ELSE {}
  IN listed \cup loaded

\* C28: with Docker files, the settings the application container runs with
\* name the composed postgres service as database host when the database is
\* PostgreSQL, and the composed redis service as queue host when useRedis is
\* true, not the container's own localhost.
C28_ContainerReachesServices ==
  (GenerationCompleted /\ answers.includeDocker) =>
    LET settings == ContainerEnvironment(files)
        services == ComposeServices(files[ComposePath])
    IN /\ (answers.database = "postgresql") =>
            /\ "postgres" \in services
            /\ "DB_HOST=postgres" \in settings
            /\ "DB_HOST=localhost" \notin settings
       /\ answers.useRedis =>
            /\ "redis" \in services
            /\ "REDIS_HOST=redis" \in settings
            /\ "REDIS_HOST=localhost" \notin settings

\* ------------------------------------------------------- C29

\* A script's command line split at blanks.
Words(command) ==
  CASE command = "tsc" -> <<"tsc">>
    [] command = "tsx watch src/index.ts" -> <<"tsx", "watch", "src/index.ts">>
    [] command = "ts-node-dev src/index.ts" -> <<"ts-node-dev", "src/index.ts">>
    [] command = "node dist/index.js" -> <<"node", "dist/index.js">>
    [] command = "ts-node --esm src/dt-cli.ts test"
         -> <<"ts-node", "--esm", "src/dt-cli.ts", "test">>
    [] command = "ts-node --esm src/dt-cli.ts dev"
         -> <<"ts-node", "--esm", "src/dt-cli.ts", "dev">>

\* The executables a package installs into node_modules/.bin.
PackageBins(package) ==
  CASE package = "typescript" -> {"tsc", "tsserver"}
    [] package = "tsx" -> {"tsx"}
    [] package = "ts-node-dev" -> {"ts-node-dev", "tsnd"}
    [] package = "ts-node" -> {"ts-node", "ts-node-esm", "ts-script"}
    [] package = "digitaltwin-cli" -> {"digitaltwin-cli"}
    [] OTHER -> {}

\* The executables of the Node.js installation itself.
NodeExecutables == {"node", "npm", "npx"}

ListedPackages(manifest) ==
  DOMAIN manifest.dependencies \cup DOMAIN manifest.devDependencies

ProvidedExecutables(manifest) ==
  NodeExecutables \cup UNION {PackageBins(p) : p \in ListedPackages(manifest)}

\* The file names among a command's words, and the written file each one is,
\* or is compiled from (tsconfig: rootDir ./src, outDir ./dist).
FileWords == {"src/index.ts", "src/dt-cli.ts", "dist/index.js", "./dist/dt-cli.js"}

SourceOf(file) ==
  CASE file \in {"src/index.ts", "dist/index.js"} -> <<"src", "index.ts">>
    [] file \in {"src/dt-cli.ts", "./dist/dt-cli.js"} -> <<"src", "dt-cli.ts">>

ScriptExecutables(manifest) ==
  {Words(manifest.scripts[s])[1] : s \in DOMAIN manifest.scripts}

ScriptFiles(manifest) ==
  UNION {{w \in Range(Words(manifest.scripts[s])) : w \in FileWords} :
           s \in DOMAIN manifest.scripts}
    \cup {manifest.bin[b] : b \in DOMAIN manifest.bin}
    \cup {manifest.main}

\* The executables the CLI wrapper dt.js spawns: npx and the command it names.
WrapperExecutables(F) ==
  IF <<"dt.js">> \in DOMAIN F
  THEN {F[<<"dt.js">>].command, F[<<"dt.js">>].argv[1]}
  ELSE {}

\* C29: every executable a manifest script or the CLI wrapper invokes is
\* provided by a package listed in dependencies or devDependencies (or by
\* Node.js itself), and every file a script or bin entry names is a written
\* file or compiled from one.
C29_ScriptsResolvable ==
  GenerationCompleted =>
    LET manifest == files[PackageJsonPath]
    IN /\ ScriptExecutables(manifest) \subseteq ProvidedExecutables(manifest)
       /\ WrapperExecutables(files) \subseteq ProvidedExecutables(manifest)
       /\ \A f \in ScriptFiles(manifest) : SourceOf(f) \in DOMAIN files

\* ------------------------------------------------------- C30

StartCompleted == {"started", "stopping", "stopped"}

\* C30: the interrupt handler is registered only after engine.start() has
\* resolved, so engine.stop() is called only on an engine whose start has
\* completed; a rejected start reaches the top-level catch, which exits with
\* status 1 and never calls stop.
C30_StopOnlyAfterStart ==
  /\ Precedes("engine.start resolved", "process.on SIGINT")
  /\ Precedes("process.on SIGINT", "engine.stop called")
  /\ Precedes("engine.start resolved", "engine.stop called")
  /\ app.handler => app.engine \in StartCompleted
  /\ app.stopping > 0 => app.engine \in StartCompleted
  /\ "engine.start rejected" \in Range(app.trace) =>
       /\ app.pc = "exited"
       /\ app.status = ExitedWith(1)
       /\ "engine.stop called" \notin Range(app.trace)
       /\ ~app.handler
       /\ SubSeq(app.trace, Len(app.trace) - 2, Len(app.trace))
            = <<"engine.start rejected", "catch", "process.exit(1)">>

\* The start was rejected and the process exited through the catch.
C30_Witness ==
  /\ "engine.start rejected" \in Range(app.trace)
  /\ app.status = ExitedWith(1)
  /\ "SIGINT" \notin Range(app.trace)

\* An interrupt arrived while serving and engine.stop() was called.
C30_WitnessStop ==
  /\ "engine.stop called" \in Range(app.trace)
  /\ "engine.start resolved" \in Range(app.trace)
  /\ app.engine = "stopping"

====
